---- MODULE Spec2Model ----
(***************************************************************************)
(* QAIYRYM Compass bot (src/qaiyrym_/main.py): the aiogram session state   *)
(* machine, the registration flow with its durable user table, and the     *)
(* chat turn loop with bounded history and the Gemini client.  The parts   *)
(* of the consent variant that src/main.py holds (language selection,      *)
(* consent, gated registration, prompt builder, Gemini client) are         *)
(* modelled beside it under names ending in _consent.                      *)
(*                                                                         *)
(* A text is a sequence of characters; every character is written as a     *)
(* short ASCII name.  Cyrillic letters are transliterated ("o","k" stand   *)
(* for U+043E, U+043A), their capitals are the upper-case names, Latin     *)
(* letters carry the prefix "lat_", and "sup2" is U+00B2.                  *)
(*                                                                         *)
(* Environment assumptions of every specification below: Telegram accepts  *)
(* every outgoing message (message.answer, edit_text and send_chat_action  *)
(* return normally), and the in-memory FSM storage is aiogram's            *)
(* MemoryStorage, whose get_data/set_data copy the dict but not the values *)
(* it holds.  Updates are handled as concurrent asyncio tasks, so a        *)
(* handler is atomic between two suspending awaits.  The chat handler is   *)
(* split at its awaits; a handler whose only suspending awaits are sends   *)
(* to Telegram is one step.                                                *)
(***************************************************************************)
EXTENDS Integers, Sequences, FiniteSets, TLC

VARIABLES
    fsmState,    \* user -> stage held by MemoryStorage ("none" is None)
    fsmData,     \* user -> the session's data dict
    lists,       \* user -> id -> chat_history list object (a Python list)
    tasks,       \* user -> chat_mode_message coroutines suspended in an await
    USERS_DATA,  \* the process-wide user table
    dbFile,      \* users_db.json
    sent,        \* user -> number of chat utterances that entered the turn loop
    io           \* what the last step did to the outside world

vars == <<fsmState, fsmData, lists, tasks, USERS_DATA, dbFile, sent, io>>

----------------------------------------------------------------------------
(* Python dicts *)

EmptyDict == [k \in {} |-> 0]

Has(d, k) == k \in DOMAIN d

Get(d, k, dflt) == IF k \in DOMAIN d THEN d[k] ELSE dflt

Put(d, k, v) == [x \in (DOMAIN d) \cup {k} |-> IF x = k THEN v ELSE d[x]]

Restrict(d, S) == [x \in (DOMAIN d) \cap S |-> d[x]]

----------------------------------------------------------------------------
(* Python str *)

Whitespace == {" "}

DecimalDigits == {"0", "1", "2", "3", "4", "5", "6", "7", "8", "9"}

\* characters for which str.isdigit() is true: the decimal digits and the
\* digit-valued characters that int() does not read, such as U+00B2
DigitChars == DecimalDigits \cup {"sup2"}

RECURSIVE lstrip(_)
lstrip(s) == IF s # <<>> /\ Head(s) \in Whitespace THEN lstrip(Tail(s)) ELSE s

RECURSIVE rstrip(_)
rstrip(s) ==
    IF s # <<>> /\ s[Len(s)] \in Whitespace
    THEN rstrip(SubSeq(s, 1, Len(s) - 1))
    ELSE s

strip(s) == rstrip(lstrip(s))

isdigit(s) == s # <<>> /\ \A i \in 1..Len(s) : s[i] \in DigitChars

DigitValue(c) ==
    CASE c = "0" -> 0 [] c = "1" -> 1 [] c = "2" -> 2 [] c = "3" -> 3
      [] c = "4" -> 4 [] c = "5" -> 5 [] c = "6" -> 6 [] c = "7" -> 7
      [] c = "8" -> 8 [] c = "9" -> 9

\* int(s) raises ValueError unless every character is a decimal digit
\* (only called on stripped texts for which isdigit holds)
IntRaises(s) == \E i \in 1..Len(s) : s[i] \notin DecimalDigits

RECURSIVE int(_)
int(s) == IF s = <<>> THEN 0 ELSE 10 * int(SubSeq(s, 1, Len(s) - 1)) + DigitValue(s[Len(s)])

UpperToLower ==
    [c \in {"O", "K", "D", "A", "N", "E", "T", "P", "R", "I", "V", "H", "Sh", "S", "B"} |->
        CASE c = "O" -> "o" [] c = "K" -> "k" [] c = "D" -> "d" [] c = "A" -> "a"
          [] c = "N" -> "n" [] c = "E" -> "e" [] c = "T" -> "t" [] c = "P" -> "p"
          [] c = "R" -> "r" [] c = "I" -> "i" [] c = "V" -> "v" [] c = "H" -> "h"
          [] c = "Sh" -> "sh" [] c = "S" -> "s" [] c = "B" -> "b"]

lower(s) == [i \in 1..Len(s) |-> IF s[i] \in DOMAIN UpperToLower THEN UpperToLower[s[i]] ELSE s[i]]

RECURSIVE replace(_, _, _)
replace(s, c, with) ==
    IF s = <<>> THEN <<>>
    ELSE (IF Head(s) = c THEN with ELSE <<Head(s)>>) \o replace(Tail(s), c, with)

----------------------------------------------------------------------------
(* Configuration and the durable user table *)

DEFAULT_LANG == "ru"

MIN_AGE == 18

HISTORY_CAP == 20

\* the event a step handled: the handler that ran, for whom, on what input
Event(handler, user, input) == [handler |-> handler, user |-> user, input |-> input]

\* what a step does to the outside world: the messages it sends, the Gemini
\* calls it starts, its spreadsheet appends and file writes (by outcome), and
\* the chat turn it completes
Quiet(event) ==
    [event |-> event, msgs |-> <<>>, gemini |-> <<>>, sheets |-> <<>>,
     writes |-> <<>>, turn |-> <<>>]

\* open(USER_DB_FILE, "w") truncates the file before json.dump writes it: a
\* write that fails at open leaves the file as it was, one that fails later
\* leaves a file that json.load rejects.  The exception is logged, not raised.
save_users_db(table, file, wr) ==
    CASE wr = "ok" -> [st |-> "ok", data |-> table]
      [] wr = "open_fail" -> file
      [] wr = "dump_fail" -> [st |-> "corrupt", data |-> EmptyDict]

load_users_db(file) == IF file.st = "ok" THEN file.data ELSE EmptyDict

get_user_role(table, user_id) ==
    IF user_id \in DOMAIN table THEN Get(table[user_id], "role", "GUEST") ELSE "GUEST"

\* mutant: the table written holds the record of the user alone
set_user_language_alone(table, user_id, lang) ==
    LET t0 == IF user_id \in DOMAIN table THEN Restrict(table, {user_id})
              ELSE Put(EmptyDict, user_id, [role |-> "GUEST"])
    IN  Put(t0, user_id, Put(t0[user_id], "lang", lang))

\* mutant: a user seen for the first time is entered as a member
set_user_language_member(table, user_id, lang) ==
    LET t0 == IF user_id \in DOMAIN table THEN table
              ELSE Put(table, user_id, [role |-> "MEMBER"])
    IN  Put(t0, user_id, Put(t0[user_id], "lang", lang))

set_user_language(table, user_id, lang) ==
    LET t0 == IF user_id \in DOMAIN table THEN table
              ELSE Put(table, user_id, [role |-> "GUEST"])
    IN  Put(t0, user_id, Put(t0[user_id], "lang", lang))

\* the record written by save_user_registration (registered_at is a timestamp
\* and is left out)
RegistrationRecord(user_id, name, age, skill, lang) ==
    [user_id |-> user_id, name |-> name, age |-> age, skill |-> skill,
     lang |-> lang, role |-> "MEMBER"]

\* append_volunteer_to_sheets under outcome sh: "off" (no sheet id, no
\* credentials file, or the client could not be built), "error" (append_row
\* raised) or "ok".  Its exceptions are caught inside.
append_volunteer_to_sheets(sh) == sh = "ok"

\* mutant: the result of the append decides the result of the registration
save_user_registration_needs_sheet(table, file, user_id, name, age, skill, lang, wr, sh) ==
    LET saved == Put(table, user_id, RegistrationRecord(user_id, name, age, skill, lang))
    IN  [table |-> saved,
         file |-> save_users_db(saved, file, wr),
         writes |-> <<wr>>,
         sheets |-> <<sh>>,
         success |-> append_volunteer_to_sheets(sh)]

\* save_user_registration: the record replaces the user's entry, the table is
\* written, the row is appended.  Nothing in its try block raises (both calls
\* catch their own exceptions) and the result of the append is not looked at,
\* so it returns True.
save_user_registration(table, file, user_id, name, age, skill, lang, wr, sh) ==
    LET saved == Put(table, user_id, RegistrationRecord(user_id, name, age, skill, lang))
    IN  [table |-> saved,
         file |-> save_users_db(saved, file, wr),
         writes |-> <<wr>>,
         sheets |-> <<sh>>,
         success |-> TRUE]

get_all_member_ids(table) ==
    {user_id \in DOMAIN table : Get(table[user_id], "role", "GUEST") = "MEMBER"}

----------------------------------------------------------------------------
(* Texts and outgoing messages *)

t(key, lang) == <<key, IF lang \in {"ru", "kz"} THEN lang ELSE DEFAULT_LANG>>

\* data.get("lang") or DEFAULT_LANG
SessionLang(data) ==
    IF Has(data, "lang") /\ data["lang"] # "" THEN data["lang"] ELSE DEFAULT_LANG

\* a localized text with an optional keyboard
Message(user, key, lang, kb) ==
    [to |-> user, text |-> t(key, lang), body |-> <<>>, kb |-> kb]

\* a literal text of the source that is not in TEXTS
Literal(user, key, body) ==
    [to |-> user, text |-> <<key, "">>, body |-> body, kb |-> "none"]

Say(event, msgs) == [Quiet(event) EXCEPT !.msgs = msgs]

----------------------------------------------------------------------------
(* The FSM storage and the chat_history list objects *)

Stages ==
    {"none", "choose_language", "guest_menu", "member_menu", "chat_mode",
     "about_submenu", "registration_name", "registration_age", "registration_skill"}

\* the list objects a session can still reach: the one stored under
\* "chat_history" and the ones held by suspended chat handlers
Reachable(data, ts) ==
    (IF Has(data, "chat_history") THEN {data["chat_history"]} ELSE {})
        \cup {ts[i].ref : i \in 1..Len(ts)}

\* list objects that nothing refers to are garbage
Collect(heap, data, ts) == Restrict(heap, Reachable(data, ts))

NewId(heap) == CHOOSE i \in 1..(Cardinality(DOMAIN heap) + 1) : i \notin DOMAIN heap

\* the history a session holds: data.get("chat_history", [])
History(user) ==
    IF Has(fsmData[user], "chat_history")
    THEN lists[user][fsmData[user]["chat_history"]]
    ELSE <<>>

\* the session after a handler that sets the stage to st and the data to data
SetSession(user, st, data) ==
    /\ fsmState' = [fsmState EXCEPT ![user] = st]
    /\ fsmData' = [fsmData EXCEPT ![user] = data]
    /\ lists' = [lists EXCEPT ![user] = Collect(@, data, tasks[user])]

MenuFor(role) == IF role = "MEMBER" THEN "member_menu" ELSE "guest_menu"

IntroFor(role) == IF role = "MEMBER" THEN "intro_member" ELSE "intro_guest"

----------------------------------------------------------------------------
(* Handlers: commands and buttons *)

\* mutant: the start command also drops the user's record
cmd_start_forgets_user(user) ==
    /\ SetSession(user, "choose_language", EmptyDict)
    /\ USERS_DATA' = Restrict(USERS_DATA, DOMAIN USERS_DATA \ {user})
    /\ dbFile' = save_users_db(USERS_DATA', dbFile, "ok")
    /\ io' = Say(Event("cmd_start", user, <<>>),
                 <<Message(user, "choose_lang", DEFAULT_LANG, "lang")>>)
    /\ UNCHANGED <<tasks, sent>>

\* mutant: the stage is set without state.clear()
cmd_start_keeps_data(user) ==
    /\ SetSession(user, "choose_language", fsmData[user])
    /\ io' = Say(Event("cmd_start", user, <<>>),
                 <<Message(user, "choose_lang", DEFAULT_LANG, "lang")>>)
    /\ UNCHANGED <<tasks, USERS_DATA, dbFile, sent>>

cmd_start(user) ==
    /\ SetSession(user, "choose_language", EmptyDict)
    /\ io' = Say(Event("cmd_start", user, <<>>),
                 <<Message(user, "choose_lang", DEFAULT_LANG, "lang")>>)
    /\ UNCHANGED <<tasks, USERS_DATA, dbFile, sent>>

\* callback "lang:<code>"; wr is the outcome of the file write
process_lang(user, code, wr) ==
    LET table == set_user_language(USERS_DATA, user, code)
        role == get_user_role(table, user)
    IN  /\ USERS_DATA' = table
        /\ dbFile' = save_users_db(table, dbFile, wr)
        /\ SetSession(user, MenuFor(role), Put(fsmData[user], "lang", code))
        /\ io' = [Say(Event("process_lang", user, <<code>>),
                      <<Message(user, IntroFor(role), code, MenuFor(role))>>)
                    EXCEPT !.writes = <<wr>>]
        /\ UNCHANGED <<tasks, sent>>

menu_chat(user) ==
    /\ SetSession(user, "chat_mode", fsmData[user])
    /\ io' = Say(Event("menu_chat", user, <<>>),
                 <<Message(user, "chat_mode_on", SessionLang(fsmData[user]), "none")>>)
    /\ UNCHANGED <<tasks, USERS_DATA, dbFile, sent>>

menu_about(user) ==
    /\ SetSession(user, "about_submenu", fsmData[user])
    /\ io' = Say(Event("menu_about", user, <<>>),
                 <<Message(user, "about", SessionLang(fsmData[user]), "about_submenu")>>)
    /\ UNCHANGED <<tasks, USERS_DATA, dbFile, sent>>

AboutTopics == {"mission", "creator", "partners", "details"}

\* callback "about:<action>": text_map.get(action, t("about", lang))
about_submenu_handler(user, action) ==
    /\ io' = Say(Event("about_submenu_handler", user, <<action>>),
                 <<Message(user, IF action \in AboutTopics THEN action ELSE "about",
                           SessionLang(fsmData[user]), "about_submenu")>>)
    /\ UNCHANGED <<fsmState, fsmData, lists, tasks, USERS_DATA, dbFile, sent>>

\* mutant: the role is not looked at
back_to_main_menu_guest(user) ==
    /\ SetSession(user, "guest_menu", fsmData[user])
    /\ io' = Say(Event("back_to_main_menu", user, <<>>),
                 <<Message(user, "intro_guest", SessionLang(fsmData[user]), "guest_menu")>>)
    /\ UNCHANGED <<tasks, USERS_DATA, dbFile, sent>>

back_to_main_menu(user) ==
    LET role == get_user_role(USERS_DATA, user)
    IN  /\ SetSession(user, MenuFor(role), fsmData[user])
        /\ io' = Say(Event("back_to_main_menu", user, <<>>),
                     <<Message(user, IntroFor(role), SessionLang(fsmData[user]), MenuFor(role))>>)
        /\ UNCHANGED <<tasks, USERS_DATA, dbFile, sent>>

menu_join(user) ==
    /\ SetSession(user, "registration_name", fsmData[user])
    /\ io' = Say(Event("menu_join", user, <<>>),
                 <<Message(user, "join_intro+ask_name", SessionLang(fsmData[user]), "none")>>)
    /\ UNCHANGED <<tasks, USERS_DATA, dbFile, sent>>

menu_instruction(user) ==
    /\ io' = Say(Event("menu_instruction", user, <<>>),
                 <<Message(user, "instruction", SessionLang(fsmData[user]), "member_menu")>>)
    /\ UNCHANGED <<fsmState, fsmData, lists, tasks, USERS_DATA, dbFile, sent>>

\* webapp: whether WEBAPP_URL is configured
menu_profile(user, webapp) ==
    /\ io' = Say(Event("menu_profile", user, <<>>),
                 <<IF webapp THEN Literal(user, "open_mini_app", <<>>)
                   ELSE Literal(user, "mini_app_not_configured", <<>>)>>)
    /\ UNCHANGED <<fsmState, fsmData, lists, tasks, USERS_DATA, dbFile, sent>>

----------------------------------------------------------------------------
(* Handlers: registration *)

\* mutant: the stage advances without the name being stored
reg_name_forgets(user, text) ==
    /\ fsmState[user] = "registration_name"
    /\ SetSession(user, "registration_age", fsmData[user])
    /\ io' = Say(Event("reg_name", user, text),
                 <<Message(user, "ask_age", SessionLang(fsmData[user]), "none")>>)
    /\ UNCHANGED <<tasks, USERS_DATA, dbFile, sent>>

reg_name(user, text) ==
    /\ fsmState[user] = "registration_name"
    /\ LET data == Put(fsmData[user], "name", strip(text))
       IN  /\ SetSession(user, "registration_age", data)
           /\ io' = Say(Event("reg_name", user, text),
                        <<Message(user, "ask_age", SessionLang(data), "none")>>)
    /\ UNCHANGED <<tasks, USERS_DATA, dbFile, sent>>

\* mutant: the comparison is turned around
IsUnderage_flipped(age) == MIN_AGE < age

\* age < 18
IsUnderage(age) == age < MIN_AGE

reg_age(user, message_text) ==
    /\ fsmState[user] = "registration_age"
    /\ LET text == strip(message_text)
           data == fsmData[user]
           lang == SessionLang(data)
       IN  IF ~isdigit(text)
           THEN /\ io' = Say(Event("reg_age", user, message_text),
                             <<Message(user, "invalid_age", lang, "none")>>)
                /\ UNCHANGED <<fsmState, fsmData, lists>>
           ELSE IF IntRaises(text)
           THEN \* int(text) raises ValueError: the handler ends there
                /\ io' = Quiet(Event("reg_age", user, message_text))
                /\ UNCHANGED <<fsmState, fsmData, lists>>
           ELSE IF IsUnderage(int(text))
           THEN /\ io' = Say(Event("reg_age", user, message_text),
                             <<Message(user, "underage", lang, "none")>>)
                /\ SetSession(user, "none", EmptyDict)
           ELSE /\ SetSession(user, "registration_skill", Put(data, "age", int(text)))
                /\ io' = Say(Event("reg_age", user, message_text),
                             <<Message(user, "ask_skill", lang, "none")>>)
    /\ UNCHANGED <<tasks, USERS_DATA, dbFile, sent>>

\* wr is the outcome of the file write, sh that of the spreadsheet append
reg_skill(user, text, wr, sh) ==
    /\ fsmState[user] = "registration_skill"
    /\ LET skill == strip(text)
           data == fsmData[user]
           lang == SessionLang(data)
           name == Get(data, "name", <<>>)
           age == Get(data, "age", 0)
           saved == save_user_registration(USERS_DATA, dbFile, user, name, age, skill,
                                           lang, wr, sh)
       IN  /\ USERS_DATA' = saved.table
           /\ dbFile' = saved.file
           /\ IF saved.success
              THEN /\ SetSession(user, "member_menu", EmptyDict)
                   /\ io' = [event |-> Event("reg_skill", user, text),
                             msgs |-> <<Message(user, "registered", lang, "none"),
                                        Message(user, "intro_member", lang, "member_menu")>>,
                             gemini |-> <<>>, sheets |-> saved.sheets,
                             writes |-> saved.writes, turn |-> <<>>]
              ELSE /\ SetSession(user, "none", EmptyDict)
                   /\ io' = [event |-> Event("reg_skill", user, text),
                             msgs |-> <<Literal(user, "save_error", <<>>)>>,
                             gemini |-> <<>>, sheets |-> saved.sheets,
                             writes |-> saved.writes, turn |-> <<>>]
    /\ UNCHANGED <<tasks, sent>>

----------------------------------------------------------------------------
(* Handlers: free text outside registration and chat *)

guest_menu_text(user, text) ==
    /\ fsmState[user] = "guest_menu"
    /\ io' = Say(Event("guest_menu_text", user, text),
                 <<Message(user, "use_menu_buttons", SessionLang(fsmData[user]), "guest_menu")>>)
    /\ UNCHANGED <<fsmState, fsmData, lists, tasks, USERS_DATA, dbFile, sent>>

member_menu_text(user, text) ==
    /\ fsmState[user] = "member_menu"
    /\ io' = Say(Event("member_menu_text", user, text),
                 <<Message(user, "use_menu_buttons", SessionLang(fsmData[user]), "member_menu")>>)
    /\ UNCHANGED <<fsmState, fsmData, lists, tasks, USERS_DATA, dbFile, sent>>

handle_unknown(user, text) ==
    /\ fsmState[user] = "none"
    /\ SetSession(user, "choose_language", fsmData[user])
    /\ io' = Say(Event("handle_unknown", user, text),
                 <<Message(user, "choose_lang", DEFAULT_LANG, "lang")>>)
    /\ UNCHANGED <<tasks, USERS_DATA, dbFile, sent>>

\* no handler's filter matches a text sent in these stages
unhandled_text(user, text) ==
    /\ fsmState[user] \in {"choose_language", "about_submenu"}
    /\ io' = Quiet(Event("unhandled_text", user, text))
    /\ UNCHANGED <<fsmState, fsmData, lists, tasks, USERS_DATA, dbFile, sent>>

\* GET /user/{user_id}: load_users_db() replaces the table by the file
get_user_data ==
    /\ USERS_DATA' = load_users_db(dbFile)
    /\ io' = Quiet(Event("get_user_data", "", <<>>))
    /\ UNCHANGED <<fsmState, fsmData, lists, tasks, dbFile, sent>>

----------------------------------------------------------------------------
(* The broadcast command *)

\* the configured administrator (environment variable ADMIN_ID)
ADMIN_ID == "u1"

\* a message text that is the command: "/broadcast" stands for its ten
\* characters, body for what follows them
BroadcastCommand(body) == <<"/broadcast">> \o body

\* cmd_broadcast.  Its handler is registered after the text handlers of the
\* registration stages, of ChatMode and of the two menus, which take every
\* text in their stage, and before handle_unknown: it is reached in the
\* stages that have no text handler of their own.  fails: the members to
\* whom send_message raises
cmd_broadcast(user, text, fails) ==
    /\ fsmState[user] \in {"none", "choose_language", "about_submenu"}
    /\ LET broadcast_text == strip(replace(text, "/broadcast", <<>>))
           member_ids == get_all_member_ids(USERS_DATA)
           success_count == Cardinality(member_ids \ fails)
           error_count == Cardinality(member_ids \cap fails)
           event == Event("cmd_broadcast", user, text)
       IN  io' = IF ADMIN_ID = "" \/ user # ADMIN_ID
                 THEN Put(Say(event, <<Literal(user, "no_access", <<>>)>>), "deliveries", {})
                 ELSE IF broadcast_text = <<>>
                 THEN Put(Say(event, <<Literal(user, "broadcast_usage", <<>>)>>),
                          "deliveries", {})
                 ELSE IF member_ids = {}
                 THEN Put(Say(event, <<Literal(user, "no_members", <<>>)>>), "deliveries", {})
                 ELSE Put(Say(event, <<Literal(user, "broadcast_done",
                                               <<success_count, error_count>>)>>),
                          "deliveries",
                          {[to |-> member_id, text |-> broadcast_text,
                            ok |-> member_id \notin fails] : member_id \in member_ids})
    /\ UNCHANGED <<fsmState, fsmData, lists, tasks, USERS_DATA, dbFile, sent>>

----------------------------------------------------------------------------
(* Dispatch of callback queries *)

\* callback data is written as its parts between colons: "lang:ru" is
\* <<"lang", "ru">>, "noop" is <<"noop">>

\* the callback_query handler whose filter matches data ("" when none does):
\* F.data.startswith("lang:"), F.data == "menu:chat", ...
Route(data) ==
    IF Len(data) >= 2 /\ data[1] = "lang" THEN "process_lang"
    ELSE IF data = <<"menu", "chat">> THEN "menu_chat"
    ELSE IF data = <<"menu", "about">> THEN "menu_about"
    ELSE IF Len(data) >= 2 /\ data[1] = "about" THEN "about_submenu_handler"
    ELSE IF data = <<"menu", "back_to_main">> THEN "back_to_main_menu"
    ELSE IF data = <<"menu", "join">> THEN "menu_join"
    ELSE IF data = <<"menu", "instruction">> THEN "menu_instruction"
    ELSE IF data = <<"menu", "profile">> THEN "menu_profile"
    ELSE ""

\* no handler's filter matches the callback data: the update is dropped
unhandled_callback(user, data) ==
    /\ Route(data) = ""
    /\ io' = Quiet(Event("unhandled_callback", user, data))
    /\ UNCHANGED <<fsmState, fsmData, lists, tasks, USERS_DATA, dbFile, sent>>

\* a button press with callback data `data`, in any stage: callback handlers
\* carry no state filter.  callback.data.split(":")[1] is data[2]
callback_query(user, data, wr, webapp) ==
    \/ Route(data) = "process_lang" /\ process_lang(user, data[2], wr)
    \/ Route(data) = "menu_chat" /\ menu_chat(user)
    \/ Route(data) = "menu_about" /\ menu_about(user)
    \/ Route(data) = "about_submenu_handler" /\ about_submenu_handler(user, data[2])
    \/ Route(data) = "back_to_main_menu" /\ back_to_main_menu(user)
    \/ Route(data) = "menu_join" /\ menu_join(user)
    \/ Route(data) = "menu_instruction" /\ menu_instruction(user)
    \/ Route(data) = "menu_profile" /\ menu_profile(user, webapp)
    \/ unhandled_callback(user, data)

----------------------------------------------------------------------------
(* The Gemini client *)

GEMINI_MODEL_NAME == "gemini-2.5-flash"

GEMINI_FALLBACK_MODEL == "gemini-2.0-flash"

\* the fixed reply strings of _generate_sync and ask_gemini, each written as
\* one symbol (none of them holds a markup character):
\*   EMPTY_REPLY    "Izvinite, ne mogu otvetit'."            (line 241)
\*   TIMEOUT_REPLY  "Vremya otveta isteklo. Poprobujte pozzhe." (line 249)
\*   API_KEY_REPLY  "Oshibka API. Prover'te nastrojki."      (line 254)
\*   FAILURE_REPLY  "K sozhaleniyu, ne mogu otvetit'."       (lines 264, 266)
EMPTY_REPLY == <<"[cannot-answer-sorry]">>

TIMEOUT_REPLY == <<"[response-time-expired]">>

API_KEY_REPLY == <<"[api-error-check-settings]">>

FAILURE_REPLY == <<"[unfortunately-cannot-answer]">>

\* what one generate_content call under wait_for can end with: a response
\* with its text, the 45 s timeout, or an exception whose str() holds some of
\* the substrings ask_gemini looks for
Response(text) == [kind |-> "text", text |-> text, marks |-> {}]

Timeout == [kind |-> "timeout", text |-> <<>>, marks |-> {}]

Failure(marks) == [kind |-> "error", text |-> <<>>, marks |-> marks]

\* response.text.strip() if response.text else "..."
generate_sync_result(outcome) ==
    IF outcome.text # <<>> THEN strip(outcome.text) ELSE EMPTY_REPLY

IsInvalidKey(outcome) ==
    outcome.marks \cap {"API_KEY_INVALID", "API key not valid"} # {}

IsNotFound(outcome) == outcome.marks \cap {"404", "NOT_FOUND"} # {}

\* mutant: every failure that is not a bad key falls back
ask_gemini_primary_any_error(outcome) ==
    CASE outcome.kind = "text" ->
            [fallback |-> FALSE, reply |-> generate_sync_result(outcome)]
      [] outcome.kind = "timeout" ->
            [fallback |-> FALSE, reply |-> TIMEOUT_REPLY]
      [] outcome.kind = "error" ->
            IF IsInvalidKey(outcome)
            THEN [fallback |-> FALSE, reply |-> API_KEY_REPLY]
            ELSE [fallback |-> TRUE, reply |-> <<>>]

\* ask_gemini after the call against GEMINI_MODEL_NAME ended with outcome:
\* either it returns a reply or it calls GEMINI_FALLBACK_MODEL
ask_gemini_primary(outcome) ==
    CASE outcome.kind = "text" ->
            [fallback |-> FALSE, reply |-> generate_sync_result(outcome)]
      [] outcome.kind = "timeout" ->
            [fallback |-> FALSE, reply |-> TIMEOUT_REPLY]
      [] outcome.kind = "error" ->
            IF IsInvalidKey(outcome)
            THEN [fallback |-> FALSE, reply |-> API_KEY_REPLY]
            ELSE IF IsNotFound(outcome)
            THEN [fallback |-> TRUE, reply |-> <<>>]
            ELSE [fallback |-> FALSE, reply |-> FAILURE_REPLY]

\* the reply of ask_gemini after the call against GEMINI_FALLBACK_MODEL:
\* "except Exception" there also catches the timeout
ask_gemini_fallback(outcome) ==
    IF outcome.kind = "text" THEN generate_sync_result(outcome) ELSE FAILURE_REPLY

\* ask_gemini as a whole: the reply it returns and the models it called, when
\* the primary call ends with primary and the fallback call, if made, with
\* fallback
ask_gemini(primary, fallback) ==
    LET r == ask_gemini_primary(primary)
    IN  IF r.fallback
        THEN [reply |-> ask_gemini_fallback(fallback),
              models |-> <<GEMINI_MODEL_NAME, GEMINI_FALLBACK_MODEL>>]
        ELSE [reply |-> r.reply, models |-> <<GEMINI_MODEL_NAME>>]

\* ask_gemini of the consent variant (src/main.py): one call, and one
\* "except Exception" for the timeout and every error
ask_gemini_consent(outcome) ==
    [reply |-> IF outcome.kind = "text" THEN generate_sync_result(outcome)
               ELSE FAILURE_REPLY,
     models |-> <<GEMINI_MODEL_NAME>>]

----------------------------------------------------------------------------
(* The prompt builder *)

GREETING_MAX_LEN == 2

\* mutant: the greeting is allowed only below the threshold
get_chat_system_instruction_below(user_lang, role, chat_history_len) ==
    LET lang == IF user_lang \in {"ru", "kz"} THEN user_lang ELSE "ru"
    IN  <<"base", IF lang = "ru" THEN "lang_name:russkom(ru)" ELSE "lang_name:kazahskom(kz)",
          IF chat_history_len < GREETING_MAX_LEN THEN "first_message_may_greet"
          ELSE "do_not_repeat_greeting",
          IF role = "MEMBER" THEN "member_mode" ELSE "guest_mode">>

\* the instruction text as the sequence of its blocks
get_chat_system_instruction(user_lang, role, chat_history_len) ==
    LET lang == IF user_lang \in {"ru", "kz"} THEN user_lang ELSE "ru"
    IN  <<"base", IF lang = "ru" THEN "lang_name:russkom(ru)" ELSE "lang_name:kazahskom(kz)",
          IF chat_history_len <= GREETING_MAX_LEN THEN "first_message_may_greet"
          ELSE "do_not_repeat_greeting",
          IF role = "MEMBER" THEN "member_mode" ELSE "guest_mode">>

\* get_chat_system_instruction of the consent variant (src/main.py): a
\* shorter base text and shorter blocks, the same tests
get_chat_system_instruction_consent(user_lang, role, chat_history_len) ==
    LET lang == IF user_lang \in {"ru", "kz"} THEN user_lang ELSE "ru"
    IN  <<"base_short", IF lang = "ru" THEN "lang_name:russkom(ru)" ELSE "lang_name:kazahskom(kz)",
          IF chat_history_len <= GREETING_MAX_LEN THEN "first_message_greeting_allowed"
          ELSE "continue_without_greeting",
          IF role = "MEMBER" THEN "member_mode_short" ELSE "guest_mode_short">>

\* the instruction chat_mode_message passes on: the [CONTEXT_DATA] block is
\* appended when KNOWLEDGE_MANIFEST is not empty
with_context_data(system_instruction, manifest) ==
    IF manifest THEN Append(system_instruction, "context_data") ELSE system_instruction

\* the prompt body: one labelled line per turn, oldest first
FormatHistory(chat_history) ==
    [i \in 1..Len(chat_history) |->
        <<IF chat_history[i].role = "user" THEN "USER:" ELSE "KOMPAS:",
          chat_history[i].content>>]

----------------------------------------------------------------------------
(* The chat turn loop *)

\* skip_words (line 503), transliterated
skip_words ==
    {<<"o", "k">>, <<"d", "a">>, <<"n", "e", "t">>,
     <<"p", "r", "i", "v", "e", "t">>, <<"p", "r", "i", "v", "e", "t", "!">>,
     <<"h", "a">>, <<"o", "k", "e">>, <<"h", "o", "r", "o", "sh", "o">>,
     <<"s", "p", "a", "s", "i", "b", "o">>, <<"p", "o", "k", "a">>}

\* mutant: the comparison is case-sensitive
IsSkipped_exact_case(message_text) ==
    strip(message_text) = <<>> \/ strip(message_text) \in skip_words

IsSkipped(message_text) ==
    strip(message_text) = <<>> \/ lower(strip(message_text)) \in skip_words

\* mutant: chat_history[:20]
Truncate_head(chat_history) ==
    IF Len(chat_history) > HISTORY_CAP
    THEN SubSeq(chat_history, 1, HISTORY_CAP)
    ELSE chat_history

\* mutant: chat_history[-19:]
Truncate_odd(chat_history) ==
    IF Len(chat_history) > HISTORY_CAP
    THEN SubSeq(chat_history, Len(chat_history) - HISTORY_CAP + 2, Len(chat_history))
    ELSE chat_history

\* chat_history[-20:]
Truncate(chat_history) ==
    IF Len(chat_history) > HISTORY_CAP
    THEN SubSeq(chat_history, Len(chat_history) - HISTORY_CAP + 1, Len(chat_history))
    ELSE chat_history

\* reply.replace("<", "&lt;").replace(">", "&gt;")
Escape(reply) ==
    replace(replace(reply, "<", <<"&", "l", "t", ";">>), ">", <<"&", "g", "t", ";">>)

RemoveAt(seq, i) == SubSeq(seq, 1, i - 1) \o SubSeq(seq, i + 1, Len(seq))

\* mutant: the result of an abandoned call is treated as a reply after all
late_result_kept(user, text) ==
    /\ io.turn # <<>>
    /\ io.turn[1].user = user
    /\ \E k \in 1..Len(io.turn[1].calls) : io.turn[1].calls[k].outcome.kind = "timeout"
    /\ Has(fsmData[user], "chat_history")
    /\ lists' = [lists EXCEPT ![user][fsmData[user]["chat_history"]] =
                    Append(@, [role |-> "model", content |-> text])]
    /\ io' = Say(Event("late_result", user, text),
                 <<Literal(user, "chat_reply", Escape(text))>>)
    /\ UNCHANGED <<fsmState, fsmData, tasks, USERS_DATA, dbFile, sent>>

\* the generate_content call that wait_for gave up on returns text in its
\* worker thread, right after the turn that timed out: the future it belongs
\* to is cancelled and no coroutine awaits it, so the text goes nowhere
late_result(user, text) ==
    /\ io.turn # <<>>
    /\ io.turn[1].user = user
    /\ \E k \in 1..Len(io.turn[1].calls) : io.turn[1].calls[k].outcome.kind = "timeout"
    /\ io' = Quiet(Event("late_result", user, text))
    /\ UNCHANGED <<fsmState, fsmData, lists, tasks, USERS_DATA, dbFile, sent>>

\* chat_mode_message up to its first suspending await (send_chat_action):
\* the filter, then the user turn appended to the list object the session
\* holds, or to a new list when the session holds none
chat_mode_message(user, message_text) ==
    /\ fsmState[user] = "chat_mode"
    /\ IF IsSkipped(message_text)
       THEN /\ io' = Quiet(Event("chat_mode_message", user, message_text))
            /\ UNCHANGED <<fsmState, fsmData, lists, tasks, USERS_DATA, dbFile, sent>>
       ELSE LET data == fsmData[user]
                stored == Has(data, "chat_history")
                ref == IF stored THEN data["chat_history"] ELSE NewId(lists[user])
                before == IF stored THEN lists[user][ref] ELSE <<>>
                turn == [role |-> "user", content |-> strip(message_text)]
                task == [text |-> strip(message_text), ref |-> ref,
                         lang |-> SessionLang(data),
                         role |-> get_user_role(USERS_DATA, user),
                         pc |-> "typing", instr |-> <<>>, prompt |-> <<>>,
                         calls |-> <<>>]
            IN  /\ lists' = [lists EXCEPT ![user] = Put(@, ref, Append(before, turn))]
                /\ tasks' = [tasks EXCEPT ![user] = Append(@, task)]
                /\ sent' = [sent EXCEPT ![user] = @ + 1]
                /\ io' = Quiet(Event("chat_mode_message", user, message_text))
                /\ UNCHANGED <<fsmState, fsmData, USERS_DATA, dbFile>>

\* mutant: the instruction is built for the length the history had before
\* the current utterance was appended
chat_typing_done_prior(user, i, manifest) ==
    /\ i \in 1..Len(tasks[user])
    /\ tasks[user][i].pc = "typing"
    /\ LET task == tasks[user][i]
           chat_history == lists[user][task.ref]
           base == get_chat_system_instruction(task.lang, task.role, Len(chat_history) - 1)
       IN  /\ tasks' = [tasks EXCEPT ![user][i] =
                          [task EXCEPT !.pc = "primary",
                                       !.instr = with_context_data(base, manifest),
                                       !.prompt = FormatHistory(chat_history),
                                       !.calls = <<[model |-> GEMINI_MODEL_NAME]>>]]
           /\ io' = [Quiet(Event("chat_typing_done", user, <<>>))
                       EXCEPT !.gemini = <<GEMINI_MODEL_NAME>>]
    /\ UNCHANGED <<fsmState, fsmData, lists, USERS_DATA, dbFile, sent>>

\* send_chat_action returned: the instruction and the prompt are built from
\* the list as it is now, and the call against the primary model starts.
\* manifest: whether knowledge.txt was found non-empty at startup
chat_typing_done(user, i, manifest) ==
    /\ i \in 1..Len(tasks[user])
    /\ tasks[user][i].pc = "typing"
    /\ LET task == tasks[user][i]
           chat_history == lists[user][task.ref]
           base == get_chat_system_instruction(task.lang, task.role, Len(chat_history))
       IN  /\ tasks' = [tasks EXCEPT ![user][i] =
                          [task EXCEPT !.pc = "primary",
                                       !.instr = with_context_data(base, manifest),
                                       !.prompt = FormatHistory(chat_history),
                                       !.calls = <<[model |-> GEMINI_MODEL_NAME]>>]]
           /\ io' = [Quiet(Event("chat_typing_done", user, <<>>))
                       EXCEPT !.gemini = <<GEMINI_MODEL_NAME>>]
    /\ UNCHANGED <<fsmState, fsmData, lists, USERS_DATA, dbFile, sent>>

\* chat_mode_message after ask_gemini returned reply: the reply is appended
\* to the handler's list, the list is cut to the cap (a new list object when
\* it was longer), stored with update_data, and the escaped reply is sent
FinishTurn(handler, user, i, reply, calls) ==
    LET task == tasks[user][i]
        full == Append(lists[user][task.ref], [role |-> "model", content |-> reply])
        heap1 == Put(lists[user], task.ref, full)
        cut == Len(full) > HISTORY_CAP
        ref == IF cut THEN NewId(heap1) ELSE task.ref
        heap2 == IF cut THEN Put(heap1, ref, Truncate(full)) ELSE heap1
        data == Put(fsmData[user], "chat_history", ref)
        rest == RemoveAt(tasks[user], i)
    IN  /\ tasks' = [tasks EXCEPT ![user] = rest]
        /\ fsmData' = [fsmData EXCEPT ![user] = data]
        /\ lists' = [lists EXCEPT ![user] = Collect(heap2, data, rest)]
        /\ io' = [event |-> Event(handler, user, <<>>),
                  msgs |-> <<Literal(user, "chat_reply", Escape(reply))>>,
                  gemini |-> <<>>, sheets |-> <<>>, writes |-> <<>>,
                  turn |-> <<[user |-> user, text |-> task.text,
                              calls |-> calls, reply |-> reply]>>]
        /\ UNCHANGED <<fsmState, USERS_DATA, dbFile, sent>>

\* the call against the primary model ended with outcome
chat_primary_done(user, i, outcome) ==
    /\ i \in 1..Len(tasks[user])
    /\ tasks[user][i].pc = "primary"
    /\ LET task == tasks[user][i]
           r == ask_gemini_primary(outcome)
           calls == <<[model |-> GEMINI_MODEL_NAME, outcome |-> outcome]>>
       IN  IF r.fallback
           THEN /\ tasks' = [tasks EXCEPT ![user][i] =
                               [task EXCEPT !.pc = "fallback",
                                            !.calls = Append(calls,
                                                [model |-> GEMINI_FALLBACK_MODEL])]]
                /\ io' = [Quiet(Event("chat_primary_done", user, <<>>))
                            EXCEPT !.gemini = <<GEMINI_FALLBACK_MODEL>>]
                /\ UNCHANGED <<fsmState, fsmData, lists, USERS_DATA, dbFile, sent>>
           ELSE FinishTurn("chat_primary_done", user, i, r.reply, calls)

\* mutant: the fallback call's "except Exception" is missing, so a timeout or
\* an error of that call leaves ask_gemini as an exception; the handler's own
\* except branch sends its apology and stores nothing
chat_fallback_done_uncaught(user, i, outcome) ==
    /\ i \in 1..Len(tasks[user])
    /\ tasks[user][i].pc = "fallback"
    /\ LET task == tasks[user][i]
           rest == RemoveAt(tasks[user], i)
       IN  IF outcome.kind = "text"
           THEN FinishTurn("chat_fallback_done", user, i, ask_gemini_fallback(outcome),
                           <<task.calls[1],
                             [model |-> GEMINI_FALLBACK_MODEL, outcome |-> outcome]>>)
           ELSE /\ tasks' = [tasks EXCEPT ![user] = rest]
                /\ lists' = [lists EXCEPT ![user] = Collect(@, fsmData[user], rest)]
                /\ io' = Say(Event("chat_fallback_done", user, <<>>),
                             <<Literal(user, "hung_try_again", <<>>)>>)
                /\ UNCHANGED <<fsmState, fsmData, USERS_DATA, dbFile, sent>>

\* the call against the fallback model ended with outcome
chat_fallback_done(user, i, outcome) ==
    /\ i \in 1..Len(tasks[user])
    /\ tasks[user][i].pc = "fallback"
    /\ LET task == tasks[user][i]
       IN  FinishTurn("chat_fallback_done", user, i, ask_gemini_fallback(outcome),
                      <<task.calls[1], [model |-> GEMINI_FALLBACK_MODEL, outcome |-> outcome]>>)

----------------------------------------------------------------------------
(* The environment: inputs and outcomes *)

LangCodes == {"ru", "kz"}

\* "abc", "-5", "15", " 7", "18", and U+00B2 alone
AgeTexts ==
    {<<"lat_a", "lat_b", "lat_c">>, <<"-", "5">>, <<"1", "5">>, <<" ", "7">>,
     <<"1", "8">>, <<"sup2">>}

SkillTexts == {<<" ", "lat_i", "lat_t">>}

MenuTexts == {<<"h", "i">>}

Digit == <<"0", "1", "2", "3", "4", "5", "6", "7", "8", "9">>

\* the n-th utterance of a user: "m" followed by n in two digits
Utterance(n) == <<"lat_m", Digit[(n \div 10) + 1], Digit[(n % 10) + 1]>>

\* utterances the filter drops: "ok", " OK ", "Privet!", and a blank text
SkippedTexts ==
    {<<"o", "k">>, <<" ", "O", "K", " ">>, <<"P", "r", "i", "v", "e", "t", "!">>, <<" ">>}

ChatTexts(user) == {Utterance(sent[user] + 1)} \cup SkippedTexts

AllOutcomes ==
    {Response(<<"lat_T", " ">>), Response(<<>>), Timeout}
        \cup {Failure(m) : m \in {{}, {"404"}, {"API_KEY_INVALID"},
                                   {"API key not valid", "NOT_FOUND"}}}

InitFor(users) ==
    /\ fsmState = [u \in users |-> "none"]
    /\ fsmData = [u \in users |-> EmptyDict]
    /\ lists = [u \in users |-> EmptyDict]
    /\ tasks = [u \in users |-> <<>>]
    /\ dbFile = [st |-> "absent", data |-> EmptyDict]
    /\ USERS_DATA = load_users_db([st |-> "absent", data |-> EmptyDict])
    /\ sent = [u \in users |-> 0]
    /\ io = Quiet(Event("init", "", <<>>))

Buttons(user) ==
    \/ menu_chat(user)
    \/ menu_about(user)
    \/ \E action \in AboutTopics : about_submenu_handler(user, action)
    \/ back_to_main_menu(user)
    \/ menu_join(user)
    \/ menu_instruction(user)
    \/ \E webapp \in BOOLEAN : menu_profile(user, webapp)

Registration(user, names, writes, sheets) ==
    \/ \E text \in names : reg_name(user, text)
    \/ \E text \in AgeTexts : reg_age(user, text)
    \/ \E text \in SkillTexts, wr \in writes, sh \in sheets : reg_skill(user, text, wr, sh)

MenuText(user) ==
    \/ \E text \in MenuTexts : guest_menu_text(user, text)
    \/ \E text \in MenuTexts : member_menu_text(user, text)
    \/ \E text \in MenuTexts : handle_unknown(user, text)
    \/ \E text \in MenuTexts : unhandled_text(user, text)

\* the chat turn loop of one user; canSend is the environment's choice of when
\* the user may send the next utterance
Chat(user, canSend, outcomes, manifests) ==
    \/ /\ canSend
       /\ \E text \in ChatTexts(user) : chat_mode_message(user, text)
    \/ \E i \in 1..Len(tasks[user]), manifest \in manifests : chat_typing_done(user, i, manifest)
    \/ \E i \in 1..Len(tasks[user]), outcome \in outcomes : chat_primary_done(user, i, outcome)
    \/ \E i \in 1..Len(tasks[user]), outcome \in outcomes : chat_fallback_done(user, i, outcome)

\* the user waits for the reply before sending the next utterance
OneAtATime(user) == tasks[user] = <<>>

----------------------------------------------------------------------------
(* Spec: one session, every handler, utterances one at a time *)

MaxTurns == 1

Init == InitFor({"u1"})

Next ==
    \/ cmd_start("u1")
    \/ \E code \in LangCodes, wr \in {"ok", "open_fail"} : process_lang("u1", code, wr)
    \/ Buttons("u1")
    \/ Registration("u1", {<<"A", "r", "u", " ">>}, {"ok", "open_fail"}, {"ok", "error"})
    \/ MenuText("u1")
    \/ Chat("u1", sent["u1"] < MaxTurns /\ OneAtATime("u1"),
            {Response(<<"lat_T">>), Response(<<"&", "lat_T", "<", ">", " ">>), Timeout,
             Failure({"404"})}, {FALSE})
    \/ get_user_data

Spec == Init /\ [][Next]_vars

----------------------------------------------------------------------------
(* SpecStore: two users, the handlers that read or write the user table *)

StoreUsers == {"u1", "u2"}

InitStore == InitFor(StoreUsers)

NextStore ==
    \/ \E user \in StoreUsers : cmd_start(user)
    \/ \E user \in StoreUsers, code \in {"kz"}, wr \in {"ok", "open_fail"} :
            process_lang(user, code, wr)
    \/ \E user \in StoreUsers : menu_join(user)
    \/ \E user \in StoreUsers : back_to_main_menu(user)
    \/ \E user \in StoreUsers :
            Registration(user, {<<"A", "r", "u", " ">>}, {"ok", "open_fail"},
                         {"ok", "error", "off"})
    \/ get_user_data

SpecStore == InitStore /\ [][NextStore]_vars

----------------------------------------------------------------------------
(* SpecChat: the chat turn loop of one session, utterances handled as      *)
(* concurrent tasks                                                        *)

ChatTurns == 2

ChatTasks == 2

NextChat ==
    \/ cmd_start("u1")
    \/ \E code \in {"kz"} : process_lang("u1", code, "ok")
    \/ menu_chat("u1")
    \/ Chat("u1", sent["u1"] < ChatTurns /\ Len(tasks["u1"]) < ChatTasks,
            AllOutcomes, {FALSE, TRUE})

SpecChat == Init /\ [][NextChat]_vars

----------------------------------------------------------------------------
(* SpecCap: one session chatting, one utterance at a time, until the       *)
(* history overflows                                                       *)

CapTurns == 11

NextCap ==
    \/ cmd_start("u1")
    \/ \E code \in {"ru"} : process_lang("u1", code, "ok")
    \/ menu_chat("u1")
    \/ Chat("u1", sent["u1"] < CapTurns /\ OneAtATime("u1"),
            {Response(<<"lat_T">>), Failure({"404"})}, {FALSE})

SpecCap == Init /\ [][NextCap]_vars

----------------------------------------------------------------------------
(* SpecButtons: one session, every button press with known and unknown     *)
(* callback data in every stage of onboarding and registration             *)

\* the buttons of the keyboards, and "lang:de", "menu:settings", "about:team"
\* and "noop"
CallbackData ==
    {<<"lang", "ru">>, <<"lang", "kz">>, <<"lang", "de">>,
     <<"menu", "chat">>, <<"menu", "about">>, <<"menu", "back_to_main">>,
     <<"menu", "join">>, <<"menu", "instruction">>, <<"menu", "profile">>,
     <<"menu", "settings">>, <<"about", "mission">>, <<"about", "team">>,
     <<"noop">>}

NextButtons ==
    \/ cmd_start("u1")
    \/ \E data \in CallbackData : callback_query("u1", data, "ok", TRUE)
    \/ Registration("u1", {<<"A", "r", "u", " ">>}, {"ok"}, {"ok"})
    \/ MenuText("u1")

SpecButtons == Init /\ [][NextButtons]_vars

----------------------------------------------------------------------------
(* The consent variant (src/main.py): language selection leads to a        *)
(* consent question, and registration is open only to users who agreed     *)

\* set_user_language of the consent variant: a new record starts with
\* agreed = False
set_user_language_consent(table, user_id, lang) ==
    LET t0 == IF user_id \in DOMAIN table THEN table
              ELSE Put(table, user_id, [role |-> "GUEST", agreed |-> FALSE])
    IN  Put(t0, user_id, Put(t0[user_id], "lang", lang))

\* the record save_user_registration of the consent variant writes
RegistrationRecord_consent(user_id, name, age, skill, lang) ==
    Put(RegistrationRecord(user_id, name, age, skill, lang), "agreed", TRUE)

\* callback "lang:<code>" in the consent variant
process_lang_consent(user, code, wr) ==
    LET table == set_user_language_consent(USERS_DATA, user, code)
    IN  /\ USERS_DATA' = table
        /\ dbFile' = save_users_db(table, dbFile, wr)
        /\ SetSession(user, "agreement", Put(fsmData[user], "lang", code))
        /\ io' = [Say(Event("process_lang", user, <<code>>),
                      <<Message(user, "agreement_text", code, "agreement")>>)
                    EXCEPT !.writes = <<wr>>]
        /\ UNCHANGED <<tasks, sent>>

\* callback "agree:<choice>": both branches end in guest_menu
process_agreement(user, choice, wr) ==
    LET t0 == IF user \in DOMAIN USERS_DATA THEN USERS_DATA
              ELSE Put(USERS_DATA, user, EmptyDict)
        table == Put(t0, user, Put(t0[user], "agreed", choice = "yes"))
        text == IF choice = "yes" THEN "thanks_you_agreed" ELSE "you_stayed_guest"
    IN  /\ USERS_DATA' = table
        /\ dbFile' = save_users_db(table, dbFile, wr)
        /\ SetSession(user, "guest_menu", fsmData[user])
        /\ io' = [Say(Event("process_agreement", user, <<choice>>),
                      <<[Literal(user, text, <<>>) EXCEPT !.kb = "guest_menu"]>>)
                    EXCEPT !.writes = <<wr>>]
        /\ UNCHANGED <<tasks, sent>>

\* menu_join of the consent variant without the check of the consent flag
menu_join_consent_open(user) == menu_join(user)

\* callback "menu:join" in the consent variant
menu_join_consent(user) ==
    IF Get(Get(USERS_DATA, user, EmptyDict), "agreed", FALSE) = FALSE
    THEN /\ io' = Say(Event("menu_join", user, <<>>),
                      <<Literal(user, "registration_unavailable", <<>>)>>)
         /\ UNCHANGED <<fsmState, fsmData, lists, tasks, USERS_DATA, dbFile, sent>>
    ELSE menu_join(user)

\* users_db.json as run_bot finds it: absent, or left by an earlier run in
\* which u1 registered
ConsentFiles ==
    {[st |-> "absent", data |-> EmptyDict],
     [st |-> "ok",
      data |-> [u \in {"u1"} |->
                  RegistrationRecord_consent("u1", <<"A", "r", "u">>, 18,
                                             <<"lat_i", "lat_t">>, "kz")]]}

InitConsent ==
    /\ fsmState = [u \in {"u1"} |-> "none"]
    /\ fsmData = [u \in {"u1"} |-> EmptyDict]
    /\ lists = [u \in {"u1"} |-> EmptyDict]
    /\ tasks = [u \in {"u1"} |-> <<>>]
    /\ dbFile \in ConsentFiles
    /\ USERS_DATA = load_users_db(dbFile)
    /\ sent = [u \in {"u1"} |-> 0]
    /\ io = Quiet(Event("init", "", <<>>))

NextConsent ==
    \/ cmd_start("u1")
    \/ \E code \in LangCodes, wr \in {"ok", "open_fail"} : process_lang_consent("u1", code, wr)
    \/ \E choice \in {"yes", "no"}, wr \in {"ok", "open_fail"} :
            process_agreement("u1", choice, wr)
    \/ menu_about("u1")
    \/ \E action \in AboutTopics : about_submenu_handler("u1", action)
    \/ menu_join_consent("u1")

SpecConsent == InitConsent /\ [][NextConsent]_vars

----------------------------------------------------------------------------
(* SpecPure: the prompt builder and the Gemini client of both source files *)
(* applied to every input of a bounded set                                 *)

\* the longest history a prompt is built for: the cap and the utterance
\* appended to it
MaxHistoryLen == 21

\* a step that applies the function called name to args
Applied(name, args, result) == Put(Quiet(Event(name, "", args)), "result", result)

apply_get_chat_system_instruction ==
    /\ \E user_lang \in LangCodes \cup {"de"}, role \in {"GUEST", "MEMBER"},
          n \in 0..MaxHistoryLen, manifest \in BOOLEAN :
            io' = Applied("get_chat_system_instruction", <<user_lang, role, n, manifest>>,
                          with_context_data(
                              get_chat_system_instruction(user_lang, role, n), manifest))
    /\ UNCHANGED <<fsmState, fsmData, lists, tasks, USERS_DATA, dbFile, sent>>

apply_get_chat_system_instruction_consent ==
    /\ \E user_lang \in LangCodes \cup {"de"}, role \in {"GUEST", "MEMBER"},
          n \in 0..MaxHistoryLen :
            io' = Applied("get_chat_system_instruction_consent", <<user_lang, role, n>>,
                          get_chat_system_instruction_consent(user_lang, role, n))
    /\ UNCHANGED <<fsmState, fsmData, lists, tasks, USERS_DATA, dbFile, sent>>

apply_ask_gemini ==
    /\ \E primary \in AllOutcomes, fallback \in AllOutcomes :
            io' = Applied("ask_gemini", <<primary, fallback>>, ask_gemini(primary, fallback))
    /\ UNCHANGED <<fsmState, fsmData, lists, tasks, USERS_DATA, dbFile, sent>>

apply_ask_gemini_consent ==
    /\ \E outcome \in AllOutcomes :
            io' = Applied("ask_gemini_consent", <<outcome>>, ask_gemini_consent(outcome))
    /\ UNCHANGED <<fsmState, fsmData, lists, tasks, USERS_DATA, dbFile, sent>>

NextPure ==
    \/ apply_get_chat_system_instruction
    \/ apply_get_chat_system_instruction_consent
    \/ apply_ask_gemini
    \/ apply_ask_gemini_consent

SpecPure == Init /\ [][NextPure]_vars

----------------------------------------------------------------------------
(* SpecFail: one session chatting against a backend that may fail in every *)
(* way, beside a second session registering while the file and the sheet   *)
(* may fail                                                                *)

FailTurns == 2

FailUsers == {"u1", "u2"}

InitFail == InitFor(FailUsers)

NextFail ==
    \/ menu_chat("u1")
    \/ Chat("u1", sent["u1"] < FailTurns /\ OneAtATime("u1"), AllOutcomes, {FALSE})
    \/ \E wr \in {"ok", "open_fail", "dump_fail"} : process_lang("u2", "kz", wr)
    \/ menu_join("u2")
    \/ Registration("u2", {<<"A", "r", "u", " ">>}, {"ok", "open_fail", "dump_fail"},
                    {"ok", "error", "off"})
    \/ get_user_data

SpecFail == InitFail /\ [][NextFail]_vars

----------------------------------------------------------------------------
(* SpecLive: the chat turn loop against a backend that may never answer,   *)
(* with the event loop running every handler that can continue             *)

LiveTurns == 3

LiveOutcomes == {Response(<<"lat_T">>), Timeout, Failure({"404"})}

\* a suspended chat handler of user continues: its await has returned, at the
\* latest when wait_for's 45 s expire
Resume(user) ==
    \/ \E i \in 1..Len(tasks[user]) : chat_typing_done(user, i, FALSE)
    \/ \E i \in 1..Len(tasks[user]), outcome \in LiveOutcomes :
            chat_primary_done(user, i, outcome)
    \/ \E i \in 1..Len(tasks[user]), outcome \in LiveOutcomes :
            chat_fallback_done(user, i, outcome)

NextLive ==
    \/ menu_chat("u1")
    \/ /\ sent["u1"] < LiveTurns
       /\ Len(tasks["u1"]) < ChatTasks
       /\ \E text \in ChatTexts("u1") : chat_mode_message("u1", text)
    \/ Resume("u1")
    \/ late_result("u1", <<"lat_L">>)

SpecLive == Init /\ [][NextLive]_vars /\ WF_vars(Resume("u1"))

----------------------------------------------------------------------------
(* SpecBroadcast: the administrator u1 moves through the stages and sends  *)
(* the broadcast command in each; u2 sends it without being administrator  *)

BroadcastUsers == {"u1", "u2"}

BroadcastTexts ==
    {BroadcastCommand(<<" ", "h", "i">>), BroadcastCommand(<<>>), BroadcastCommand(<<" ">>)}

\* users_db.json as run_bot finds it: absent, or with u2 registered earlier
BroadcastFiles ==
    {[st |-> "absent", data |-> EmptyDict],
     [st |-> "ok",
      data |-> [u \in {"u2"} |->
                  RegistrationRecord("u2", <<"A", "r", "u">>, 18, <<"lat_i", "lat_t">>, "kz")]]}

InitBroadcast ==
    /\ fsmState = [u \in BroadcastUsers |-> "none"]
    /\ fsmData = [u \in BroadcastUsers |-> EmptyDict]
    /\ lists = [u \in BroadcastUsers |-> EmptyDict]
    /\ tasks = [u \in BroadcastUsers |-> <<>>]
    /\ dbFile \in BroadcastFiles
    /\ USERS_DATA = load_users_db(dbFile)
    /\ sent = [u \in BroadcastUsers |-> 0]
    /\ io = Quiet(Event("init", "", <<>>))

\* a message whose text is the command, handled by the first handler whose
\* filter matches
broadcast_message(user, text, fails) ==
    \/ reg_name(user, text)
    \/ reg_age(user, text)
    \/ reg_skill(user, text, "ok", "ok")
    \/ sent[user] < MaxTurns /\ chat_mode_message(user, text)
    \/ guest_menu_text(user, text)
    \/ member_menu_text(user, text)
    \/ cmd_broadcast(user, text, fails)

NextBroadcast ==
    \/ cmd_start("u1")
    \/ process_lang("u1", "ru", "ok")
    \/ menu_chat("u1")
    \/ menu_about("u1")
    \/ menu_join("u1")
    \/ reg_age("u1", <<"1", "8">>)
    \/ \E user \in BroadcastUsers, text \in BroadcastTexts, fails \in SUBSET BroadcastUsers :
            broadcast_message(user, text, fails)
    \/ \E outcome \in {Response(<<"lat_T">>)} : chat_primary_done("u1", 1, outcome)
    \/ chat_typing_done("u1", 1, FALSE)

SpecBroadcast == InitBroadcast /\ [][NextBroadcast]_vars

----------------------------------------------------------------------------
(* Properties *)

Min(a, b) == IF a < b THEN a ELSE b

UserTurn(content) == [role |-> "user", content |-> content]

ModelTurn(content) == [role |-> "model", content |-> content]

\* a text that, trimmed, is a non-negative integer literal
ParsesAsInteger(text) ==
    /\ strip(text) # <<>>
    /\ \A i \in 1..Len(strip(text)) : strip(text)[i] \in DecimalDigits

\* the handlers of free text
TextHandlers ==
    {"reg_name", "reg_age", "reg_skill", "chat_mode_message", "guest_menu_text",
     "member_menu_text", "handle_unknown", "unhandled_text"}

RegistrationStages == {"registration_name", "registration_age", "registration_skill"}

\* C1: after every completed chat turn the stored history holds at most 20
\* entries: they are the last entries, in their order, of the history the
\* turn worked on with the reply appended, and so the most recent utterances
\* of the user, each followed by its reply.
C1_HistoryCapFifo ==
    [][io'.turn # <<>> =>
          LET held == lists["u1"][tasks["u1"][1].ref]
              full == Append(held, ModelTurn(io'.turn[1].reply))
              kept == History("u1")'
              n == Len(kept)
          IN  /\ n <= 20
              /\ n = Min(Len(full), 20)
              /\ \A k \in 1..n : kept[k] = full[Len(full) - n + k]
              /\ \A k \in 1..n :
                    IF (n - k) % 2 = 1
                    THEN kept[k] = UserTurn(Utterance(sent["u1"] - ((n - k - 1) \div 2)))
                    ELSE kept[k].role = "model"]_vars

\* C1 witness: the eleventh turn in a row has completed and the first
\* utterance with its reply has been dropped
C1_OldestDropped ==
    /\ io.turn # <<>>
    /\ sent["u1"] = 11
    /\ Len(History("u1")) = 20
    /\ History("u1")[1] = UserTurn(Utterance(2))
    /\ History("u1")[20] = ModelTurn(io.turn[1].reply)

\* C2: within one session no model call for a later utterance has started
\* while an earlier utterance is still being handled, and every completed
\* turn leaves the stored history ending with that turn's utterance and its
\* reply, with everything stored before still in place (below the cap).
C2_StrictArrivalOrder ==
    [][/\ \A i, j \in 1..Len(tasks'["u1"]) : i < j => tasks'["u1"][j].calls = <<>>
       /\ io'.turn # <<>> =>
             LET before == History("u1")
                 kept == History("u1")'
                 n == Len(kept)
             IN  /\ n >= 2
                 /\ kept[n - 1] = UserTurn(io'.turn[1].text)
                 /\ kept[n] = ModelTurn(io'.turn[1].reply)
                 /\ Len(before) <= n
                 /\ \A k \in 1..Len(before) : kept[k] = before[k]]_vars

\* C3: a user's record takes the role MEMBER only in the step that handles a
\* skill text in RegistrationSkill, with the name and the age >= 18 the
\* session holds; RegistrationSkill is entered only from RegistrationAge by
\* an integer input >= 18, RegistrationAge only from RegistrationName by a
\* name; every MEMBER record has age >= 18 and every other record is GUEST.
C3_MemberOnlyByRegistration ==
    [][\A u \in StoreUsers :
          /\ (get_user_role(USERS_DATA', u) = "MEMBER"
                /\ get_user_role(USERS_DATA, u) # "MEMBER") =>
                /\ io'.event.handler = "reg_skill"
                /\ io'.event.user = u
                /\ fsmState[u] = "registration_skill"
                /\ Has(fsmData[u], "name") /\ Has(fsmData[u], "age")
                /\ fsmData[u]["age"] >= 18
                /\ USERS_DATA'[u]["age"] = fsmData[u]["age"]
                /\ USERS_DATA'[u]["name"] = fsmData[u]["name"]
          /\ (fsmState'[u] = "registration_skill" /\ fsmState[u] # "registration_skill") =>
                /\ io'.event.handler = "reg_age"
                /\ io'.event.user = u
                /\ fsmState[u] = "registration_age"
                /\ ParsesAsInteger(io'.event.input)
                /\ int(strip(io'.event.input)) >= 18
                /\ fsmData'[u]["age"] = int(strip(io'.event.input))
          /\ (fsmState'[u] = "registration_age" /\ fsmState[u] # "registration_age") =>
                /\ io'.event.handler = "reg_name"
                /\ io'.event.user = u
                /\ fsmState[u] = "registration_name"
                /\ fsmData'[u]["name"] = strip(io'.event.input)
          /\ fsmState'[u] \in {"registration_age", "registration_skill"} =>
                Has(fsmData'[u], "name")
          /\ fsmState'[u] = "registration_skill" =>
                Has(fsmData'[u], "age") /\ fsmData'[u]["age"] >= 18
          /\ u \in DOMAIN USERS_DATA' =>
                /\ Has(USERS_DATA'[u], "role")
                /\ USERS_DATA'[u]["role"] \in {"GUEST", "MEMBER"}
                /\ USERS_DATA'[u]["role"] = "MEMBER" =>
                      Has(USERS_DATA'[u], "age") /\ USERS_DATA'[u]["age"] >= 18]_vars

\* C3 witness: one user is a member of age 18 after registering, while the
\* other, who only chose a language, has a GUEST record
C3_MemberBesideGuest ==
    /\ io.event.handler = "reg_skill"
    /\ io.event.user = "u1"
    /\ get_user_role(USERS_DATA, "u1") = "MEMBER"
    /\ USERS_DATA["u1"]["age"] = 18
    /\ "u2" \in DOMAIN USERS_DATA
    /\ USERS_DATA["u2"]["role"] = "GUEST"

\* C4: handling a skill text in RegistrationSkill creates or replaces exactly
\* the user's record, with role MEMBER and the session's name and age >= 18,
\* writes the table once, attempts exactly one spreadsheet append, and,
\* whatever the outcome of the append, sends the registration-success reply
\* and makes the stage MemberMenu.
C4_OneRecordOneAppend ==
    [][io'.event.handler = "reg_skill" =>
          LET u == io'.event.user
              lang == SessionLang(fsmData[u])
              rec == [user_id |-> u, name |-> fsmData[u]["name"],
                      age |-> fsmData[u]["age"], skill |-> strip(io'.event.input),
                      lang |-> lang, role |-> "MEMBER"]
          IN  /\ fsmData[u]["age"] >= 18
              /\ USERS_DATA' = Put(USERS_DATA, u, rec)
              /\ Len(io'.writes) = 1
              /\ io'.writes[1] = "ok" => dbFile' = [st |-> "ok", data |-> USERS_DATA']
              /\ Len(io'.sheets) = 1
              /\ io'.msgs = <<Message(u, "registered", lang, "none"),
                              Message(u, "intro_member", lang, "member_menu")>>
              /\ fsmState'[u] = "member_menu"]_vars

\* C4 witness: a registration completed although the spreadsheet append failed
C4_RegisteredDespiteAppendError ==
    /\ io.event.handler = "reg_skill"
    /\ io.sheets = <<"error">>
    /\ fsmState[io.event.user] = "member_menu"
    /\ get_user_role(USERS_DATA, io.event.user) = "MEMBER"
    /\ io.msgs[1].text[1] = "registered"

\* C5: an input in RegistrationAge that is an integer below 18 leaves the
\* table and the file unchanged, shows the underage message, empties the
\* session data and resets the stage to the initial one; from the initial
\* stage a free text is handled by handle_unknown and leads to
\* ChooseLanguage; RegistrationName is entered only by the join button and
\* the later registration stages only from a registration stage.
C5_UnderageResets ==
    [][/\ (/\ io'.event.handler = "reg_age"
           /\ ParsesAsInteger(io'.event.input)
           /\ int(strip(io'.event.input)) < 18) =>
             /\ USERS_DATA' = USERS_DATA
             /\ dbFile' = dbFile
             /\ io'.writes = <<>>
             /\ io'.sheets = <<>>
             /\ io'.msgs = <<Message("u1", "underage", SessionLang(fsmData["u1"]), "none")>>
             /\ fsmData'["u1"] = EmptyDict
             /\ fsmState'["u1"] = "none"
       /\ (io'.event.handler \in TextHandlers /\ fsmState["u1"] = "none") =>
             /\ io'.event.handler = "handle_unknown"
             /\ fsmState'["u1"] = "choose_language"
       /\ (fsmState'["u1"] = "registration_name" /\ fsmState["u1"] # "registration_name") =>
             io'.event.handler = "menu_join"
       /\ (/\ fsmState'["u1"] \in {"registration_age", "registration_skill"}
           /\ fsmState["u1"] # fsmState'["u1"]) =>
             fsmState["u1"] \in RegistrationStages]_vars

\* C5 witness: "15" was answered with the underage message (in Kazakh) and
\* the session is back at the initial stage with no data
C5_FifteenRejected ==
    /\ io.event = Event("reg_age", "u1", <<"1", "5">>)
    /\ io.msgs = <<Message("u1", "underage", "kz", "none")>>
    /\ fsmState["u1"] = "none"
    /\ fsmData["u1"] = EmptyDict

\* C6: an input in RegistrationAge that is not a non-negative integer literal
\* is answered with the invalid-age message; the stage stays RegistrationAge
\* and the session data, the table and the file are unchanged.
C6_InvalidAgeReprompts ==
    [][(io'.event.handler = "reg_age" /\ ~ParsesAsInteger(io'.event.input)) =>
          /\ io'.msgs = <<Message("u1", "invalid_age", SessionLang(fsmData["u1"]), "none")>>
          /\ fsmState'["u1"] = "registration_age"
          /\ fsmData' = fsmData
          /\ USERS_DATA' = USERS_DATA
          /\ dbFile' = dbFile]_vars

\* C7: when the write of the table fails while a registration completes, the
\* user gets the save-error message, the stage does not become MemberMenu,
\* the user's role does not change, the session is cleared and the write is
\* attempted once.
C7_WriteFailureReported ==
    [][(io'.event.handler = "reg_skill" /\ io'.writes # <<>> /\ io'.writes[1] # "ok") =>
          /\ io'.msgs = <<Literal("u1", "save_error", <<>>)>>
          /\ fsmState'["u1"] # "member_menu"
          /\ get_user_role(USERS_DATA', "u1") = get_user_role(USERS_DATA, "u1")
          /\ fsmData'["u1"] = EmptyDict
          /\ Len(io'.writes) = 1]_vars

\* a failure of the not-found class: its text holds "404" or "NOT_FOUND" and
\* it is not of the invalid-credentials class
PrimaryNotFound(outcome) ==
    /\ outcome.kind = "error"
    /\ outcome.marks \cap {"404", "NOT_FOUND"} # {}
    /\ outcome.marks \cap {"API_KEY_INVALID", "API key not valid"} = {}

C9_TimeoutReply ==
    [][(/\ io'.turn # <<>>
        /\ \E k \in 1..Len(io'.turn[1].calls) :
              io'.turn[1].calls[k].outcome.kind = "timeout") =>
          /\ io'.turn[1].reply = TIMEOUT_REPLY
          /\ io'.msgs = <<Literal("u1", "chat_reply", TIMEOUT_REPLY)>>
          /\ \E k \in 1..Len(History("u1")') :
                History("u1")'[k] = UserTurn(io'.turn[1].text)]_vars

\* C10: in ChatMode an utterance that, trimmed and lower-cased, is one of the
\* acknowledgement tokens sends nothing and starts no backend call, and the
\* stage, the session data, the history lists, the handlers in flight, the
\* table and the file are unchanged.
C10_AckDiscarded ==
    [][(/\ io'.event.handler = "chat_mode_message"
        /\ lower(strip(io'.event.input)) \in skip_words) =>
          /\ fsmState["u1"] = "chat_mode"
          /\ io'.msgs = <<>>
          /\ io'.gemini = <<>>
          /\ io'.turn = <<>>
          /\ UNCHANGED <<fsmState, fsmData, lists, tasks, USERS_DATA, dbFile, sent>>]_vars

\* C10 witness: " OK " arrived while an earlier utterance was being handled
\* and nothing was sent
C10_UpperCaseOkDropped ==
    /\ io.event = Event("chat_mode_message", "u1", <<" ", "O", "K", " ">>)
    /\ Len(tasks["u1"]) = 1
    /\ io.msgs = <<>>

\* the language codes the texts exist in
SupportedLangs == {"ru", "kz"}

\* C11: a button press whose callback data is not a known one (a language
\* selection with an unsupported code, an about topic that does not exist,
\* or data no handler matches) changes neither the session stage nor the
\* table nor the file, in any stage.
C11_UnknownButtonIgnored ==
    [][(\/ io'.event.handler = "unhandled_callback"
        \/ /\ io'.event.handler = "process_lang"
           /\ io'.event.input[1] \notin SupportedLangs
        \/ /\ io'.event.handler = "about_submenu_handler"
           /\ io'.event.input[1] \notin {"mission", "creator", "partners", "details"}) =>
          /\ fsmState' = fsmState
          /\ USERS_DATA' = USERS_DATA
          /\ dbFile' = dbFile]_vars

\* C12: a free text received in GuestMenu, MemberMenu or AboutSubmenu is
\* answered with the use-the-buttons message, and the stage, the session
\* data, the table and the file are unchanged.
C12_MenuTextGuidance ==
    [][(/\ io'.event.handler \in TextHandlers
        /\ fsmState["u1"] \in {"guest_menu", "member_menu", "about_submenu"}) =>
          /\ Len(io'.msgs) = 1
          /\ io'.msgs[1].text = t("use_menu_buttons", SessionLang(fsmData["u1"]))
          /\ fsmState' = fsmState
          /\ fsmData' = fsmData
          /\ USERS_DATA' = USERS_DATA
          /\ dbFile' = dbFile]_vars

\* C13: a start command, in whatever stage it arrives, leaves the session in
\* ChooseLanguage with empty session data (no language, no registration
\* fields, no chat history), asks for the language, and changes neither the
\* table nor the file.
C13_StartResets ==
    [][io'.event.handler = "cmd_start" =>
          /\ fsmState'["u1"] = "choose_language"
          /\ fsmData'["u1"] = EmptyDict
          /\ History("u1")' = <<>>
          /\ io'.msgs = <<Message("u1", "choose_lang", "ru", "lang")>>
          /\ USERS_DATA' = USERS_DATA
          /\ dbFile' = dbFile
          /\ io'.writes = <<>>]_vars

\* C13 witness: a member who had completed a chat turn sent /start; the
\* session is empty and the record is still there
C13_StartAfterChat ==
    /\ io.event.handler = "cmd_start"
    /\ sent["u1"] = 1
    /\ tasks["u1"] = <<>>
    /\ fsmState["u1"] = "choose_language"
    /\ fsmData["u1"] = EmptyDict
    /\ get_user_role(USERS_DATA, "u1") = "MEMBER"

\* C15: once a user's record holds a language, that language changes only in
\* a step that handles a language selection, and then to the selected code
\* (steps that reload the table from the file are left aside).
C15_RecordLanguageIsLastChosen ==
    [][(/\ io'.event.handler # "get_user_data"
        /\ "u1" \in DOMAIN USERS_DATA
        /\ Has(USERS_DATA["u1"], "lang")
        /\ "u1" \in DOMAIN USERS_DATA'
        /\ Has(USERS_DATA'["u1"], "lang")
        /\ USERS_DATA'["u1"]["lang"] # USERS_DATA["u1"]["lang"]) =>
          /\ io'.event.handler = "process_lang"
          /\ USERS_DATA'["u1"]["lang"] = io'.event.input[1]]_vars

\* C16: the language held by a session and the language on a record are
\* always one of the supported codes.
C16_StoredLanguageSupported ==
    /\ Has(fsmData["u1"], "lang") => fsmData["u1"]["lang"] \in SupportedLangs
    /\ \A u \in DOMAIN USERS_DATA :
          Has(USERS_DATA[u], "lang") => USERS_DATA[u]["lang"] \in SupportedLangs

\* C14: a language selection with a supported code stores that code in the
\* session and on the user's record and keeps the record's role; the menu
\* stage the user is then routed to (in the consent variant: by the step that
\* handles the consent answer) is MemberMenu when the role is MEMBER and
\* GuestMenu otherwise.
C14_LanguageRoutesByRole ==
    [][/\ (io'.event.handler = "process_lang" /\ io'.event.input[1] \in SupportedLangs) =>
            /\ fsmData'["u1"]["lang"] = io'.event.input[1]
            /\ USERS_DATA'["u1"]["lang"] = io'.event.input[1]
            /\ get_user_role(USERS_DATA', "u1") = get_user_role(USERS_DATA, "u1")
            /\ fsmState'["u1"] \in {"agreement", MenuFor(get_user_role(USERS_DATA', "u1"))}
       /\ io'.event.handler = "process_agreement" =>
            fsmState'["u1"] = MenuFor(get_user_role(USERS_DATA', "u1"))]_vars

\* the blocks of an instruction text
Blocks(text) == {text[k] : k \in 1..Len(text)}

\* the blocks that allow a greeting, and the blocks that forbid a second one
GreetingBlocks == {"first_message_may_greet", "first_message_greeting_allowed"}

NoGreetingBlocks == {"do_not_repeat_greeting", "continue_without_greeting"}

\* C17: the instruction text built for a history of length n holds the block
\* that allows a greeting and not the block that forbids a second one when
\* n <= 2, and the block that forbids it and not the one that allows it when
\* n > 2, for every language, role and excerpt, in both source files.
C17_GreetingBlockByLength ==
    io.event.handler \in {"get_chat_system_instruction", "get_chat_system_instruction_consent"} =>
        LET n == io.event.input[3]
            blocks == Blocks(io.result)
        IN  /\ n <= 2 => blocks \cap GreetingBlocks # {} /\ blocks \cap NoGreetingBlocks = {}
            /\ n > 2 => blocks \cap GreetingBlocks = {} /\ blocks \cap NoGreetingBlocks # {}

\* C17 witness: the text built for a history of length 2, with the excerpt,
\* allows the greeting
C17_LengthTwoGreets ==
    /\ io.event.handler = "get_chat_system_instruction"
    /\ io.event.input[3] = 2
    /\ io.event.input[4]
    /\ "first_message_may_greet" \in Blocks(io.result)
    /\ "context_data" \in Blocks(io.result)

\* C20: when the call against the primary model fails with an error text that
\* names an invalid key, also one that names not-found as well, the reply is
\* neither the timeout reply nor the generic failure reply, and only the
\* primary model was called.
C20_InvalidKeyReplyDistinct ==
    (/\ io.event.handler \in {"ask_gemini", "ask_gemini_consent"}
     /\ io.event.input[1].kind = "error"
     /\ io.event.input[1].marks \cap {"API_KEY_INVALID", "API key not valid"} # {}) =>
        /\ io.result.reply \notin {TIMEOUT_REPLY, FAILURE_REPLY}
        /\ io.result.models = <<GEMINI_MODEL_NAME>>

\* a text with every character the HTML parse mode interprets escaped
EscapeMarkup(text) ==
    replace(replace(replace(text, "&", <<"&", "a", "m", "p", ";">>),
                    "<", <<"&", "l", "t", ";">>),
            ">", <<"&", "g", "t", ";">>)

\* C18: for a user who is not a member, the language selection "ru" shows the
\* guest menu; selecting chat leads to ChatMode; and when the session holds
\* the language "ru" and no history, and the backend answers the one
\* utterance u in flight with a text T (trimmed), the step that completes
\* the turn leaves the stage ChatMode, the history [user u, assistant T], and
\* sends exactly one reply, T with its markup characters escaped.
C18_FirstTurnScenario ==
    [][/\ (/\ io'.event.handler = "process_lang"
           /\ io'.event.input = <<"ru">>
           /\ get_user_role(USERS_DATA, "u1") # "MEMBER") =>
             /\ io'.msgs = <<Message("u1", "intro_guest", "ru", "guest_menu")>>
             /\ fsmState'["u1"] = "guest_menu"
       /\ io'.event.handler = "menu_chat" => fsmState'["u1"] = "chat_mode"
       /\ (/\ io'.turn # <<>>
           /\ fsmState["u1"] = "chat_mode"
           /\ fsmData["u1"] = [lang |-> "ru"]
           /\ Len(tasks["u1"]) = 1
           /\ get_user_role(USERS_DATA, "u1") # "MEMBER"
           /\ io'.turn[1].calls[1].outcome.kind = "text"
           /\ io'.turn[1].calls[1].outcome.text # <<>>) =>
             LET u == io'.turn[1].text
                 T == strip(io'.turn[1].calls[1].outcome.text)
             IN  /\ fsmState'["u1"] = "chat_mode"
                 /\ History("u1")' = <<UserTurn(u), ModelTurn(T)>>
                 /\ io'.msgs = <<Literal("u1", "chat_reply", EscapeMarkup(T))>>]_vars

\* the last step handled the failure of an external call: a backend call that
\* timed out or raised, a file write that failed, or a sheet append that
\* failed or was not possible
FailureHandled(step) ==
    \/ /\ step.turn # <<>>
       /\ \E k \in 1..Len(step.turn[1].calls) : step.turn[1].calls[k].outcome.kind # "text"
    \/ \E k \in 1..Len(step.writes) : step.writes[k] # "ok"
    \/ \E k \in 1..Len(step.sheets) : step.sheets[k] # "ok"

\* C19: a handler that waited for the backend ends, whatever the outcomes of
\* the primary and the fallback call, with the client's reply stored as the
\* last turn and sent as the one message; a registration or a language
\* selection whose file write or sheet append failed ends with its messages
\* sent and its stage set; and in the state after a step that handled such a
\* failure, a start command and a chat selection of either session, and an
\* utterance of a session in ChatMode, are handled.
C19_FailuresAreContained ==
    [][/\ Len(tasks'["u1"]) < Len(tasks["u1"]) =>
             /\ io'.turn # <<>>
             /\ io'.msgs = <<Literal("u1", "chat_reply", Escape(io'.turn[1].reply))>>
             /\ History("u1")' # <<>>
             /\ History("u1")'[Len(History("u1")')] = ModelTurn(io'.turn[1].reply)
       /\ (io'.event.handler = "reg_skill" /\ FailureHandled(io')) =>
             /\ Len(io'.msgs) = 2
             /\ fsmState'["u2"] = "member_menu"
             /\ get_user_role(USERS_DATA', "u2") = "MEMBER"
       /\ (io'.event.handler = "process_lang" /\ FailureHandled(io')) =>
             /\ Len(io'.msgs) = 1
             /\ fsmState'["u2"] = "guest_menu" \/ fsmState'["u2"] = "member_menu"
       /\ FailureHandled(io) =>
             /\ \A u \in FailUsers : ENABLED cmd_start(u) /\ ENABLED menu_chat(u)
             /\ \A u \in FailUsers :
                   fsmState[u] = "chat_mode" => ENABLED chat_mode_message(u, <<"h", "i">>)]_vars

\* C19 witness: the first turn of u1 ended with the failure reply after both
\* calls failed, u2 registered although the file could not be written, and
\* the second utterance of u1 has just been answered
C19_NextTurnAnswered ==
    /\ io.turn # <<>>
    /\ sent["u1"] = 2
    /\ Len(History("u1")) = 4
    /\ History("u1")[2] = ModelTurn(FAILURE_REPLY)
    /\ io.turn[1].calls[1].outcome.kind = "text"
    /\ get_user_role(USERS_DATA, "u2") = "MEMBER"
    /\ dbFile.st # "ok"

\* the n-th utterance of u1 is being handled
InFlight(n) == \E i \in 1..Len(tasks["u1"]) : tasks["u1"][i].text = Utterance(n)

\* C21: an utterance that entered the turn loop is eventually answered, also
\* when every call made for it times out; the step that ends its handling
\* sends exactly one reply, no other step sends one, a call that timed out
\* is answered with the timeout or the failure reply, and a result that
\* arrives after the expiry changes nothing and sends nothing.
C21_EveryUtteranceAnswered ==
    /\ \A n \in 1..LiveTurns : InFlight(n) ~> ~InFlight(n)
    /\ [][/\ Len(tasks'["u1"]) < Len(tasks["u1"]) =>
                /\ Len(tasks'["u1"]) = Len(tasks["u1"]) - 1
                /\ io'.turn # <<>>
                /\ io'.msgs = <<Literal("u1", "chat_reply", Escape(io'.turn[1].reply))>>
                /\ (\E k \in 1..Len(io'.turn[1].calls) :
                        io'.turn[1].calls[k].outcome.kind = "timeout") =>
                      io'.turn[1].reply \in {TIMEOUT_REPLY, FAILURE_REPLY}
          /\ Len(tasks'["u1"]) >= Len(tasks["u1"]) =>
                \A k \in 1..Len(io'.msgs) : io'.msgs[k].text[1] # "chat_reply"
          /\ io'.event.handler = "late_result" =>
                /\ io'.msgs = <<>>
                /\ lists' = lists
                /\ fsmData' = fsmData]_vars

\* C21 witness: the primary call of the third utterance has just timed out
\* and the timeout reply is the last turn of the history
C21_TimedOutAnswered ==
    /\ io.turn # <<>>
    /\ io.turn[1].text = Utterance(3)
    /\ io.turn[1].calls[1].outcome.kind = "timeout"
    /\ History("u1") # <<>>
    /\ History("u1")[Len(History("u1"))] = ModelTurn(TIMEOUT_REPLY)
    /\ tasks["u1"] = <<>>

\* C22: the message sent at the end of a chat turn is the stored reply with
\* every "&", "<" and ">" replaced by its entity, so a reply holding none of
\* them is sent as it is stored.
C22_ReplyEscaped ==
    [][io'.turn # <<>> =>
          /\ Len(io'.msgs) = 1
          /\ io'.msgs[1].body = EscapeMarkup(io'.turn[1].reply)
          /\ (\A k \in 1..Len(io'.turn[1].reply) :
                  io'.turn[1].reply[k] \notin {"&", "<", ">"}) =>
                io'.msgs[1].body = io'.turn[1].reply]_vars

\* the handlers of the menu navigation buttons
NavigationHandlers ==
    {"menu_chat", "menu_about", "about_submenu_handler", "back_to_main_menu",
     "menu_join", "menu_instruction", "menu_profile"}

\* C23: a menu navigation button changes neither the table, nor the file, nor
\* the session data (language, pending name and age, history reference), nor
\* any history list; chat, about and join set their own stage, instruction,
\* profile and the about topics keep the stage, and back sets MemberMenu when
\* the user's role is MEMBER and GuestMenu otherwise.
C23_NavigationOnlyMovesStage ==
    [][io'.event.handler \in NavigationHandlers =>
          /\ USERS_DATA' = USERS_DATA
          /\ dbFile' = dbFile
          /\ io'.writes = <<>>
          /\ fsmData' = fsmData
          /\ lists' = lists
          /\ tasks' = tasks
          /\ io'.event.handler = "menu_chat" => fsmState'["u1"] = "chat_mode"
          /\ io'.event.handler = "menu_about" => fsmState'["u1"] = "about_submenu"
          /\ io'.event.handler = "menu_join" => fsmState'["u1"] = "registration_name"
          /\ io'.event.handler \in {"menu_instruction", "menu_profile", "about_submenu_handler"} =>
                fsmState' = fsmState
          /\ io'.event.handler = "back_to_main_menu" =>
                fsmState'["u1"] = IF /\ "u1" \in DOMAIN USERS_DATA
                                     /\ Has(USERS_DATA["u1"], "role")
                                     /\ USERS_DATA["u1"]["role"] = "MEMBER"
                                  THEN "member_menu" ELSE "guest_menu"]_vars

\* C23 witness: a member with a stored history pressed back and is in
\* MemberMenu, the history still held by the session
C23_MemberWentBack ==
    /\ io.event.handler = "back_to_main_menu"
    /\ fsmState["u1"] = "member_menu"
    /\ get_user_role(USERS_DATA, "u1") = "MEMBER"
    /\ Len(History("u1")) = 2

\* C24 as stated: every step of a session other than the completion of a
\* registration leaves the table and the file unchanged.
C24_OnlyRegistrationWrites ==
    [][io'.event.handler \notin {"reg_skill", "get_user_data"} =>
          /\ USERS_DATA' = USERS_DATA
          /\ dbFile' = dbFile]_vars

\* C24 amended: the file is written, and the table changed, only by the
\* completion of a registration, by a language selection and by a consent
\* answer; every other step of a session (start, menu navigation, name and
\* age inputs, chat turns, free text) leaves both unchanged and attempts no
\* write.
C24_OnlyRegistrationAndLanguageWrite ==
    [][io'.event.handler \notin {"reg_skill", "process_lang", "process_agreement"} =>
          /\ dbFile' = dbFile
          /\ io'.writes = <<>>
          /\ io'.event.handler # "get_user_data" => USERS_DATA' = USERS_DATA]_vars

\* C24 witness: a guest who chose "kz" was rejected as underage; the record
\* and the file are as the language selection left them
C24_RejectionLeftRecord ==
    /\ io.event.handler = "reg_age"
    /\ fsmState["u1"] = "none"
    /\ "u1" \in DOMAIN USERS_DATA
    /\ USERS_DATA["u1"] = [role |-> "GUEST", lang |-> "kz"]
    /\ dbFile = [st |-> "ok", data |-> USERS_DATA]

Deliveries(step) == IF "deliveries" \in DOMAIN step THEN step.deliveries ELSE {}

\* C26: a step that handles a message whose text is the broadcast command
\* attempts deliveries only if the sender is the administrator and the text
\* after the command is not blank; in that case, in whatever stage the
\* sender is, it attempts exactly one delivery of that text to every user
\* whose role is MEMBER and to nobody else, and, when there is a member, the
\* reported numbers of successes and failures are those of the attempts and
\* add up to the number of members.
C26_BroadcastDeliveries ==
    [][io'.event.input \in BroadcastTexts =>
          LET body == strip(SubSeq(io'.event.input, 2, Len(io'.event.input)))
              allowed == io'.event.user = ADMIN_ID /\ body # <<>>
              members == {u \in DOMAIN USERS_DATA :
                            Has(USERS_DATA[u], "role") /\ USERS_DATA[u]["role"] = "MEMBER"}
              attempts == Deliveries(io')
          IN  /\ attempts # {} => allowed
              /\ allowed =>
                    /\ {d.to : d \in attempts} = members
                    /\ Cardinality(attempts) = Cardinality(members)
                    /\ \A d \in attempts : d.text = body
                    /\ members # {} =>
                          /\ Len(io'.msgs) = 1
                          /\ io'.msgs[1].body[1] = Cardinality({d \in attempts : d.ok})
                          /\ io'.msgs[1].body[1] + io'.msgs[1].body[2] =
                                Cardinality(members)]_vars

\* the consent flag of a user in a durable table
Agreed(table, user) == Get(Get(table, user, EmptyDict), "agreed", FALSE)

\* C27: in the consent variant a press of the join button moves the session
\* to RegistrationName when the user's durable consent flag is true, and
\* otherwise answers that registration is unavailable and leaves the stage,
\* the session and the durable store as they were; a consent answer sets the
\* flag to true exactly for "yes" and ends in GuestMenu, and no step other
\* than a consent answer changes the flag.
C27_JoinNeedsConsent ==
    [][ /\ io'.event.handler = "menu_join" =>
            IF Agreed(USERS_DATA, io'.event.user)
            THEN fsmState'[io'.event.user] = "registration_name"
            ELSE /\ io'.msgs = <<Literal(io'.event.user, "registration_unavailable", <<>>)>>
                 /\ UNCHANGED <<fsmState, fsmData, USERS_DATA, dbFile>>
        /\ io'.event.handler = "process_agreement" =>
            /\ fsmState'[io'.event.user] = "guest_menu"
            /\ Agreed(USERS_DATA', io'.event.user) = (io'.event.input = <<"yes">>)
        /\ io'.event.handler # "process_agreement" =>
            \A u \in DOMAIN fsmState : Agreed(USERS_DATA', u) = Agreed(USERS_DATA, u)]_vars

\* a join pressed in GuestMenu by a user whose consent flag is stored as
\* false was refused
C27_JoinRefused ==
    /\ io.event.handler = "menu_join"
    /\ io.msgs = <<Literal("u1", "registration_unavailable", <<>>)>>
    /\ fsmState["u1"] = "guest_menu"
    /\ "u1" \in DOMAIN USERS_DATA
    /\ Has(USERS_DATA["u1"], "agreed")
    /\ ~USERS_DATA["u1"]["agreed"]

\* C28: a step that brings a session into ChatMode or RegistrationName
\* starts in GuestMenu or MemberMenu, a step that brings it into
\* RegistrationAge starts in RegistrationName, and a step that brings it
\* into RegistrationSkill starts in RegistrationAge.
C28_TransitionsFollowDiagram ==
    [][\A u \in DOMAIN fsmState :
          fsmState'[u] # fsmState[u] =>
             /\ fsmState'[u] \in {"chat_mode", "registration_name"} =>
                   fsmState[u] \in {"guest_menu", "member_menu"}
             /\ fsmState'[u] = "registration_age" => fsmState[u] = "registration_name"
             /\ fsmState'[u] = "registration_skill" => fsmState[u] = "registration_age"]_vars

\* the stages in which a registration is pending
PendingStages == {"registration_age", "registration_skill"}

\* C29: in stage RegistrationAge the session holds a pending name, in stage
\* RegistrationSkill it holds a pending name and a pending age of at least
\* 18; the name input stores the trimmed text as pending name, an accepted
\* age input stores its number as pending age, no step that stays within
\* these stages changes them, and the skill input writes a record whose
\* name and age are the pending ones and whose skill is the trimmed text.
C29_PendingRegistrationBuilt ==
    /\ [](\A u \in DOMAIN fsmState :
            /\ fsmState[u] \in PendingStages => Has(fsmData[u], "name")
            /\ fsmState[u] = "registration_skill" =>
                  /\ Has(fsmData[u], "age")
                  /\ fsmData[u]["age"] >= MIN_AGE)
    /\ [][\A u \in DOMAIN fsmState :
            /\ fsmState[u] = "registration_name" /\ fsmState'[u] = "registration_age" =>
                  /\ io'.event.handler = "reg_name"
                  /\ fsmData'[u]["name"] = strip(io'.event.input)
            /\ fsmState[u] = "registration_age" /\ fsmState'[u] = "registration_skill" =>
                  /\ io'.event.handler = "reg_age"
                  /\ fsmData'[u]["age"] = int(strip(io'.event.input))
            /\ fsmState[u] \in PendingStages /\ fsmState'[u] \in PendingStages =>
                  fsmData'[u]["name"] = fsmData[u]["name"]
            /\ fsmState[u] = "registration_skill" /\ fsmState'[u] = "registration_skill" =>
                  fsmData'[u]["age"] = fsmData[u]["age"]
            /\ io'.event.handler = "reg_skill" /\ io'.event.user = u =>
                  /\ u \in DOMAIN USERS_DATA'
                  /\ USERS_DATA'[u]["name"] = fsmData[u]["name"]
                  /\ USERS_DATA'[u]["age"] = fsmData[u]["age"]
                  /\ USERS_DATA'[u]["skill"] = strip(io'.event.input)]_vars

\* a registration was completed from a name, an age of 18 and a skill
C29_RecordFromPending ==
    /\ io.event.handler = "reg_skill"
    /\ fsmState["u1"] = "member_menu"
    /\ "u1" \in DOMAIN USERS_DATA
    /\ Has(USERS_DATA["u1"], "name")
    /\ USERS_DATA["u1"]["name"] # <<>>
    /\ USERS_DATA["u1"]["age"] = 18
    /\ USERS_DATA["u1"]["skill"] = <<"lat_i", "lat_t">>

\* the number of exchanges a history holds: its replies
Exchanges(chat_history) ==
    Cardinality({k \in 1..Len(chat_history) : chat_history[k].role = "model"})

\* the step builds the instruction of user u's i-th turn in flight
InstructionBuilt(u, i) ==
    /\ io'.event.handler = "chat_typing_done"
    /\ io'.event.user = u
    /\ i \in 1..Len(tasks[u])
    /\ tasks[u][i].pc = "typing"
    /\ tasks'[u][i].pc = "primary"

\* C30: the instruction built for an utterance allows a greeting when the
\* history holds at most one exchange besides the utterance, and forbids a
\* second greeting when it holds more.
C30_GreetingUpToOneExchange ==
    [][\A u \in DOMAIN tasks : \A i \in 1..Len(tasks[u]) :
          InstructionBuilt(u, i) =>
             LET blocks == Blocks(tasks'[u][i].instr)
                 n == Exchanges(lists[u][tasks[u][i].ref])
             IN  /\ n <= 1 => blocks \cap GreetingBlocks # {} /\ blocks \cap NoGreetingBlocks = {}
                 /\ n > 1 => blocks \cap GreetingBlocks = {} /\ blocks \cap NoGreetingBlocks # {}]_vars

\* C30, amended: the instruction built for an utterance allows a greeting
\* when the history holds no exchange besides the utterance, and forbids a
\* second greeting when it holds one or more; a history stored in the
\* session holds at least one exchange, so every later utterance of that
\* history is forbidden to greet again.
C30_GreetingBeforeFirstExchange ==
    /\ [][\A u \in DOMAIN tasks : \A i \in 1..Len(tasks[u]) :
            InstructionBuilt(u, i) =>
               LET blocks == Blocks(tasks'[u][i].instr)
                   n == Exchanges(lists[u][tasks[u][i].ref])
               IN  /\ n = 0 => blocks \cap GreetingBlocks # {} /\ blocks \cap NoGreetingBlocks = {}
                   /\ n > 0 => blocks \cap GreetingBlocks = {} /\ blocks \cap NoGreetingBlocks # {}]_vars
    /\ [](\A u \in DOMAIN fsmData :
            Has(fsmData[u], "chat_history") =>
               Exchanges(lists[u][fsmData[u]["chat_history"]]) >= 1)

\* the instruction of the second utterance of a history, which holds one
\* exchange, was built and forbids the greeting
C30_SecondUtteranceBuilt ==
    /\ io.event.handler = "chat_typing_done"
    /\ \E i \in 1..Len(tasks["u1"]) :
          /\ tasks["u1"][i].pc = "primary"
          /\ Exchanges(lists["u1"][tasks["u1"][i].ref]) = 1
          /\ Len(lists["u1"][tasks["u1"][i].ref]) = 3
          /\ "do_not_repeat_greeting" \in Blocks(tasks["u1"][i].instr)

\* the history before truncation after a turn with utterance text and reply:
\* the history before the turn, with the user turn if the handler's append
\* has not reached it yet, and then the reply
HistoryAfterTurn(history, text, reply) ==
    LET user_turn == [role |-> "user", content |-> text]
        model_turn == [role |-> "model", content |-> reply]
    IN  IF history # <<>> /\ history[Len(history)] = user_turn
        THEN Append(history, model_turn)
        ELSE history \o <<user_turn, model_turn>>

\* C31: a step that completes a chat turn, whatever the outcomes of its
\* backend calls, leaves as the session's history the history the session
\* held, extended by the user turn and then the reply of the turn, cut to the
\* cap; the one message sent is that reply, escaped; and a prompt built
\* afterwards holds one line for every turn of the session's history.
C31_TurnAddsUtteranceAndReply ==
    [][\A u \in DOMAIN fsmData :
          /\ io'.turn # <<>> /\ io'.turn[1].user = u =>
                /\ History(u)' = Truncate(HistoryAfterTurn(History(u), io'.turn[1].text,
                                                           io'.turn[1].reply))
                /\ Len(io'.msgs) = 1
                /\ io'.msgs[1].body = Escape(io'.turn[1].reply)
          /\ \A i \in 1..Len(tasks[u]) :
                InstructionBuilt(u, i) =>
                   \A k \in 1..Len(History(u)) :
                      \E j \in 1..Len(tasks'[u][i].prompt) :
                         tasks'[u][i].prompt[j] = FormatHistory(History(u))[k]]_vars

\* user and model turns alternate, from a user turn to a model turn
Alternates(chat_history) ==
    /\ Len(chat_history) % 2 = 0
    /\ \A k \in 1..Len(chat_history) :
          chat_history[k].role = IF k % 2 = 1 THEN "user" ELSE "model"

\* C32: with the utterances of a session sent one at a time, in the state
\* after a step that completes a chat turn the session's history is not
\* empty, has even length and alternates user and model turns from a user
\* turn to a model turn, also when the step has cut it to the cap.
C32_HistoryAlternates ==
    io.turn # <<>> =>
        /\ History(io.turn[1].user) # <<>>
        /\ Alternates(History(io.turn[1].user))

\* the eleventh turn was completed and the history cut to the twenty latest
\* entries, the first of which is the second utterance
C32_CutHistoryAlternates ==
    /\ io.turn # <<>>
    /\ io.turn[1].text = Utterance(11)
    /\ Len(History("u1")) = HISTORY_CAP
    /\ History("u1")[1] = [role |-> "user", content |-> Utterance(2)]

\* C33: a step that completes a chat turn of a session which a start command
\* has meanwhile put into ChooseLanguage leaves the stage and the cleared
\* session data as they are, so the session holds no history then.
C33_ResetSessionStaysCleared ==
    [][\A u \in DOMAIN fsmData :
          (io'.turn # <<>> /\ io'.turn[1].user = u /\ fsmState[u] = "choose_language") =>
             /\ fsmState'[u] = "choose_language"
             /\ fsmData'[u] = fsmData[u]
             /\ ~Has(fsmData'[u], "chat_history")]_vars

\* the step rejects an underage input of u, or handles u's skill input
\* (completing the registration or failing to save it)
ErasesSession(u) ==
    /\ io'.event.user = u
    /\ \/ io'.event.handler = "reg_skill"
       \/ /\ io'.event.handler = "reg_age"
          /\ Len(io'.msgs) = 1
          /\ io'.msgs[1].text[1] = "underage"

\* C34: an underage rejection and the handling of the skill input, whether
\* the record could be saved or not, leave the session with no data at all;
\* a language enters a session only by a language selection; and a session
\* in the initial stage, where a rejection leaves it, holds no language and
\* no history.
C34_ErasureClearsSession ==
    /\ [][\A u \in DOMAIN fsmData :
            /\ ErasesSession(u) => fsmData'[u] = EmptyDict
            /\ (~Has(fsmData[u], "lang") /\ Has(fsmData'[u], "lang")) =>
                  io'.event.handler = "process_lang"]_vars
    /\ [](\A u \in DOMAIN fsmData : fsmState[u] = "none" => fsmData[u] = EmptyDict)

\* C35: no step takes the role MEMBER from a user who has it: the record
\* stays in the table with that role.
C35_MemberStaysMember ==
    [][\A u \in DOMAIN fsmState :
          get_user_role(USERS_DATA, u) = "MEMBER" =>
             /\ u \in DOMAIN USERS_DATA'
             /\ get_user_role(USERS_DATA', u) = "MEMBER"]_vars

\* C36: a session in MemberMenu is that of a user whose role is MEMBER, and
\* a session in GuestMenu that of a user whose role is GUEST.
C36_MenuMatchesRole ==
    \A u \in DOMAIN fsmState :
        /\ fsmState[u] = "member_menu" => get_user_role(USERS_DATA, u) = "MEMBER"
        /\ fsmState[u] = "guest_menu" => get_user_role(USERS_DATA, u) = "GUEST"

====
